---- MODULE Spec2Model ----
(***************************************************************************)
(* A model of the streak and Fuel-Point (FP) ledger procedures of the      *)
(* HealthRocket database migrations:                                       *)
(*   - calculate_burn_streak, recalculate_burn_streak,                     *)
(*     recalculate_all_burn_streaks, reset_missed_burn_streaks and the     *)
(*     AFTER INSERT trigger on completed_boosts                            *)
(*     (supabase/migrations/20250705181753_still_waterfall.sql);           *)
(*   - complete_morning_basics_action_v2 (20250614234610_broken_limit.sql),*)
(*     handle_morning_basics_completion (unnamed/part_000) and the         *)
(*     sync_fp_earnings trigger (unnamed/part_001);                        *)
(*   - complete_custom_challenge_daily (20250705135508_royal_bush.sql).    *)
(* Calendar dates are integers (day numbers); CURRENT_DATE is the variable *)
(* today.  A table is a set, bag or sequence of its rows; names,           *)
(* timestamps, metadata and the progress percentage are left out.          *)
(***************************************************************************)
EXTENDS Integers, Sequences, FiniteSets, TLC

VARIABLES
  today,                 \* CURRENT_DATE
  result,                \* the JSONB value returned by the most recent call
  \* ---- burn streak tables
  completed_boosts,      \* [user -> bag of completed_date]: rows of completed_boosts
  burn_streak,           \* users.burn_streak, per user
  longest_burn_streak,   \* users.longest_burn_streak, per user
  manual_burn_streak_fixes, \* the rows the most recent call inserted into the log table
  n_inserts,             \* number of completed_boosts rows inserted since Init
  \* ---- challenge / ledger tables (one user, auth.uid() = p_user_id)
  challenges,            \* the user's 'mb0' row of challenges, or NoRow
  completed_actions,     \* bag of completed_date: rows with action_id 'morning_basics_daily'
  completed_challenges,  \* sequence of the user's rows of completed_challenges
  fp_earnings,           \* sequence of the user's rows of fp_earnings (append-only)
  daily_fp,              \* [date -> row] for the dates that have a daily_fp row
  fuel_points,           \* users.fuel_points
  custom_challenges,     \* the user's custom_challenges row
  custom_challenge_daily_completions, \* sequence of the challenge's rows
  \* ---- two concurrent sessions
  pc,                    \* per session: position in its call
  fn,                    \* per session: the function it runs
  loc,                   \* per session: the PL/pgSQL local variables read so far
  \* ---- community insights
  chat_messages,         \* sequence of rows of chat_messages
  all_user_insights,     \* sequence of rows of all_user_insights; a row's id is its index
  \* ---- the award tables as the statement-level trigger on daily_fp sees them
  user_fp_earnings,      \* [user -> set of DATE(earned_at)] of the user's fp_earnings rows
  user_daily_fp,         \* [user -> set of date] of the user's daily_fp rows
  user_fuel_points,      \* users.fuel_points, per user
  \* ---- health assessments and the useHealthAssessment hook
  health_assessments,    \* set of rows of health_assessments
  loading,               \* the hook's loading state
  hook_error,            \* the hook's error state: {} for null, else {message}
  rpc_calls,             \* number of update_health_assessment_v3 RPC calls made
  retryCount,            \* the hook's retryCount state
  timers                 \* pending setTimeout callbacks: the retryCount their closure holds

streakVars == <<completed_boosts, burn_streak, longest_burn_streak,
                manual_burn_streak_fixes, n_inserts>>
ledgerVars == <<challenges, completed_actions, completed_challenges, fp_earnings,
                daily_fp, fuel_points, custom_challenges,
                custom_challenge_daily_completions>>
sessionVars == <<pc, fn, loc>>
insightVars == <<chat_messages, all_user_insights>>
accountVars == <<user_fp_earnings, user_daily_fp, user_fuel_points>>
assessmentVars == <<health_assessments, loading, hook_error, rpc_calls, retryCount,
                    timers>>
vars == <<today, result, streakVars, ledgerVars, sessionVars, insightVars, accountVars,
          assessmentVars>>

----------------------------------------------------------------------------
(* Bounds of the model *)

\* CURRENT_DATE runs over 0..MaxDay
MaxDay == 2
\* at most MaxInserts rows are inserted into completed_boosts after Init
MaxInserts == 2
\* at most MaxBoostsPerDay completed_boosts rows per user and date
MaxBoostsPerDay == 2
\* initial histories hold runs of 0..ShortRun consecutive boost days
ShortRun == 2
\* and runs of v_max_days_to_check - LongRunSlack .. v_max_days_to_check + LongRunSlack days
LongRunSlack == 1

\* a submission to complete_custom_challenge_daily names at most MaxActions actions
MaxActions == 2
\* at most MaxMessages rows are inserted into chat_messages
MaxMessages == 3

Users == {"u1", "u2"}

----------------------------------------------------------------------------
(* Generic helpers: rows of a table as a bag of dates *)

NoRow == [exists |-> FALSE]

EmptyBag == [d \in {} |-> 0]

\* INSERT of one row with date d
InsertRow(bag, d) ==
  IF d \in DOMAIN bag THEN [bag EXCEPT ![d] = @ + 1] ELSE bag @@ (d :> 1)

\* EXISTS (SELECT 1 FROM table WHERE date = d)
ExistsRow(bag, d) == d \in DOMAIN bag

CountRows(bag, d) == IF d \in DOMAIN bag THEN bag[d] ELSE 0

\* one row on each date of lo..hi
RunBag(lo, hi) == [d \in lo..hi |-> 1]

Greatest(a, b) == IF a >= b THEN a ELSE b
Least(a, b) == IF a <= b THEN a ELSE b

----------------------------------------------------------------------------
(* still_waterfall.sql: burn streak from completed_boosts *)

v_max_days_to_check == 100

SetMin(S) == CHOOSE x \in S : \A y \in S : x <= y
SetMax(S) == CHOOSE x \in S : \A y \in S : y <= x

\* a variant of calculate_burn_streak that starts its walk at the user's most
\* recent boost date instead of CURRENT_DATE (as recalculate_burn_streaks of
\* broken_limit.sql does)
calculate_burn_streak_from_latest(cb, p_user_id, asOf) ==
  LET boost_dates == DOMAIN cb[p_user_id]
      latest == SetMax(boost_dates)
      no_boost == {i \in 0..(v_max_days_to_check - 1) : (latest - i) \notin boost_dates}
  IN  IF boost_dates = {} THEN 0
      ELSE IF no_boost = {} THEN v_max_days_to_check ELSE SetMin(no_boost)

\* a variant of calculate_burn_streak without the safety check on
\* v_days_checked
calculate_burn_streak_unlimited(cb, p_user_id, asOf) ==
  LET boost_dates == DOMAIN cb[p_user_id]
  IN  SetMin({i \in 0..Cardinality(boost_dates) : (asOf - i) \notin boost_dates})

\* calculate_burn_streak(p_user_id) evaluated on table contents cb at
\* CURRENT_DATE = asOf.  Iteration i (v_days_checked = i) of the LOOP tests
\* v_check_date = asOf - i; the loop exits with v_streak = i at the first i whose
\* date has no boost, and with v_streak = v_max_days_to_check when the safety
\* check fires after that many iterations.
calculate_burn_streak(cb, p_user_id, asOf) ==
  LET boost_dates == DOMAIN cb[p_user_id]
      no_boost == {i \in 0..(v_max_days_to_check - 1) : (asOf - i) \notin boost_dates}
  IN  IF no_boost = {} THEN v_max_days_to_check ELSE SetMin(no_boost)

\* a variant of new_longest that stores the new streak
new_longest_replaced(v_longest_streak, v_new_streak) == v_new_streak

\* a variant of new_longest that leaves longest_burn_streak as it was
new_longest_kept(v_longest_streak, v_new_streak) == v_longest_streak

\* GREATEST(COALESCE(longest_burn_streak, 0), v_new_streak); the column is never
\* NULL in the states of this model, so COALESCE(x, 0) = x
new_longest(v_longest_streak, v_new_streak) == Greatest(v_longest_streak, v_new_streak)

\* the row recalculate_burn_streak inserts into manual_burn_streak_fixes
fix_row(u, v_old_streak, v_new_streak, v_longest_streak) ==
  [user_id |-> u, previous_streak |-> v_old_streak, new_streak |-> v_new_streak,
   previous_longest |-> v_longest_streak,
   new_longest |-> new_longest(v_longest_streak, v_new_streak),
   reason |-> "recalculate_burn_streak"]

\* the row reset_missed_burn_streaks inserts into manual_burn_streak_fixes
reset_row(u, v_old_streak) ==
  [user_id |-> u, previous_streak |-> v_old_streak, new_streak |-> 0,
   reason |-> "missed day"]

\* the JSONB value recalculate_burn_streak returns
recalc_result(u, cb) ==
  LET v_new == calculate_burn_streak(cb, u, today)
  IN  [op |-> "recalculate_burn_streak", success |-> TRUE, user_id |-> u,
       new_streak |-> v_new,
       new_longest |-> new_longest(longest_burn_streak[u], v_new)]

\* a variant of recalculate_burn_streak that adds the day to the stored streak
\* when the user has a boost today (as update_burn_streak of jade_oasis.sql
\* does) instead of replacing it
recalculate_burn_streak_incremental(p_user_id, cb) ==
  LET v_old_streak == burn_streak[p_user_id]
      v_longest_streak == longest_burn_streak[p_user_id]
      v_new_streak == IF ExistsRow(cb[p_user_id], today)
                        THEN v_old_streak + 1 ELSE 0
  IN  /\ burn_streak' = [burn_streak EXCEPT ![p_user_id] = v_new_streak]
      /\ longest_burn_streak' =
           [longest_burn_streak EXCEPT
              ![p_user_id] = new_longest(v_longest_streak, v_new_streak)]
      /\ manual_burn_streak_fixes' =
           {fix_row(p_user_id, v_old_streak, v_new_streak, v_longest_streak)}

\* recalculate_burn_streak(p_user_id) run on completed_boosts contents cb:
\* the UPDATE of users and the INSERT into manual_burn_streak_fixes
recalculate_burn_streak(p_user_id, cb) ==
  LET v_old_streak == burn_streak[p_user_id]
      v_longest_streak == longest_burn_streak[p_user_id]
      v_new_streak == calculate_burn_streak(cb, p_user_id, today)
  IN  /\ burn_streak' = [burn_streak EXCEPT ![p_user_id] = v_new_streak]
      /\ longest_burn_streak' =
           [longest_burn_streak EXCEPT
              ![p_user_id] = new_longest(v_longest_streak, v_new_streak)]
      /\ manual_burn_streak_fixes' =
           {fix_row(p_user_id, v_old_streak, v_new_streak, v_longest_streak)}

\* SELECT public.recalculate_burn_streak(u)
RecalculateBurnStreak(u) ==
  /\ recalculate_burn_streak(u, completed_boosts)
  /\ result' = recalc_result(u, completed_boosts)
  /\ UNCHANGED <<today, completed_boosts, n_inserts, ledgerVars, sessionVars, insightVars, accountVars, assessmentVars>>

\* INSERT INTO completed_boosts (user u, completed_date = CURRENT_DATE), followed
\* by the AFTER INSERT trigger update_burn_streak_on_boost_completion, which
\* performs recalculate_burn_streak(NEW.user_id)
InsertBoost(u) ==
  /\ n_inserts < MaxInserts
  /\ CountRows(completed_boosts[u], today) < MaxBoostsPerDay
  /\ LET cb == [completed_boosts EXCEPT ![u] = InsertRow(@, today)]
     IN  /\ completed_boosts' = cb
         /\ recalculate_burn_streak(u, cb)
  /\ n_inserts' = n_inserts + 1
  /\ result' = [op |-> "insert_boost", user_id |-> u]
  /\ UNCHANGED <<today, ledgerVars, sessionVars, insightVars, accountVars, assessmentVars>>

\* recalculate_all_burn_streaks(): FOR v_user IN SELECT id FROM users LOOP
\* recalculate_burn_streak(v_user.id), each user's call reading and writing
\* that user's rows only
recalculate_all_tally_all_succeed(v_results) ==
  [total_users |-> Cardinality(DOMAIN v_results),
   success_count |-> Cardinality(DOMAIN v_results),
   error_count |-> 0]

\* v_success_count, v_error_count and total_users after the loop, the results
\* being each user's (v_result->>'success')::BOOLEAN
recalculate_all_tally(v_results) ==
  LET v_success_count == Cardinality({u \in DOMAIN v_results : v_results[u]})
      v_error_count == Cardinality({u \in DOMAIN v_results : ~v_results[u]})
  IN  [total_users |-> v_success_count + v_error_count,
       success_count |-> v_success_count,
       error_count |-> v_error_count]

\* the loop over all users; in the calls for the users of `failing' a statement
\* of recalculate_burn_streak raises, its EXCEPTION WHEN OTHERS block undoes the
\* call's writes and returns success FALSE
recalculate_all_burn_streaks(failing) ==
  LET v_new(u) == calculate_burn_streak(completed_boosts, u, today)
      v_results == [u \in Users |-> u \notin failing]
      tally == recalculate_all_tally(v_results)
  IN  /\ burn_streak' =
           [u \in Users |-> IF u \in failing THEN burn_streak[u] ELSE v_new(u)]
      /\ longest_burn_streak' =
           [u \in Users |-> IF u \in failing THEN longest_burn_streak[u]
                            ELSE new_longest(longest_burn_streak[u], v_new(u))]
      /\ manual_burn_streak_fixes' =
           {fix_row(u, burn_streak[u], v_new(u), longest_burn_streak[u]) :
              u \in Users \ failing}
      /\ result' = [op |-> "recalculate_all_burn_streaks", success |-> TRUE,
                    total_users |-> tally.total_users,
                    success_count |-> tally.success_count,
                    error_count |-> tally.error_count,
                    results |-> v_results]
      /\ UNCHANGED <<today, completed_boosts, n_inserts, ledgerVars, sessionVars,
                     insightVars, accountVars, assessmentVars>>

RecalculateAllBurnStreaks == recalculate_all_burn_streaks({})

\* the users reset_missed_burn_streaks selects: burn_streak > 0 and no
\* completed_boosts row dated v_yesterday
missed_users ==
  LET v_yesterday == today - 1
  IN  {u \in Users : /\ burn_streak[u] > 0
                     /\ ~ExistsRow(completed_boosts[u], v_yesterday)}

\* reset_missed_burn_streaks()
ResetMissedBurnStreaks ==
  /\ burn_streak' = [u \in Users |-> IF u \in missed_users THEN 0 ELSE burn_streak[u]]
  /\ manual_burn_streak_fixes' = {reset_row(u, burn_streak[u]) : u \in missed_users}
  /\ result' = [op |-> "reset_missed_burn_streaks", success |-> TRUE,
                reset_count |-> Cardinality(missed_users)]
  /\ UNCHANGED <<today, completed_boosts, longest_burn_streak, n_inserts,
                 ledgerVars, sessionVars, insightVars, accountVars, assessmentVars>>

\* midnight: CURRENT_DATE advances
NextDay ==
  /\ today < MaxDay
  /\ today' = today + 1
  /\ result' = [op |-> "next_day"]
  /\ UNCHANGED <<streakVars, ledgerVars, sessionVars, insightVars, accountVars, assessmentVars>>

----------------------------------------------------------------------------
(* Morning Basics: broken_limit.sql, unnamed/part_000, unnamed/part_001 *)

\* v_fp_earned / fp_to_award: the daily award
fp_to_award == 5
\* v_bonus_fp / bonus_fp: the completion bonus
bonus_fp == 50
\* the verification count at which the challenge completes
days_to_complete == 21

fp_row(item_id, fp_amount) ==
  [item_id |-> item_id, item_type |-> "challenge", fp_amount |-> fp_amount]

\* sync_fp_earnings(), the AFTER INSERT trigger on completed_challenges, run
\* for the inserted row NEW_row on fp_earnings contents fp
sync_fp_earnings(NEW_row, fp) ==
  LET v_fp_amount == NEW_row.fp_earned
  IN  IF v_fp_amount > 0
        THEN Append(fp, fp_row(NEW_row.challenge_id, v_fp_amount))
        ELSE fp

\* INSERT INTO completed_challenges of the row for 'mb0', with its trigger
completed_challenge_row(vc) ==
  [challenge_id |-> "mb0", fp_earned |-> bonus_fp, verification_count |-> vc]

\* a variant of v2_already_completed that never finds the day's row
v2_never_completed(p_action_date) == FALSE

\* complete_morning_basics_action_v2: v_already_completed
v2_already_completed(p_action_date) == ExistsRow(completed_actions, p_action_date)

\* handle_morning_basics_completion: existing_completion_id IS NOT NULL
existing_completion(today_date) == ExistsRow(completed_actions, today_date)

\* the daily_fp row after v2's "create or update" of the day's row
v2_daily_fp(dfp, d) ==
  IF d \notin DOMAIN dfp
    THEN dfp @@ (d :> [fp_earned |-> fp_to_award, boosts_completed |-> 1,
                       challenges_completed |-> 0])
    ELSE [dfp EXCEPT ![d].fp_earned = @ + fp_to_award,
                     ![d].boosts_completed = @ + 1]

\* v2's UPDATE daily_fp ... WHERE id = v_daily_fp_id: v_daily_fp_id is the id
\* selected before the day's row was created, NULL when there was none
v2_daily_fp_bonus(dfp, d, had_row) ==
  IF had_row
    THEN [dfp EXCEPT ![d].fp_earned = @ + bonus_fp,
                     ![d].challenges_completed = @ + 1]
    ELSE dfp

verification_count_kept(v_verification_count) == v_verification_count

\* UPDATE challenges SET verification_count = v_verification_count + 1
verification_count_updated(v_verification_count) == v_verification_count + 1

\* complete_morning_basics_action_v2 from "Get or create the challenge" to its
\* RETURN, for a call that passed the check; seen is the challenges row its
\* SELECT found
v2_completion(seen, p_action_date) ==
  LET v_verification_count == IF seen.exists THEN seen.verification_count ELSE 0
      v_days_completed == verification_count_updated(v_verification_count)
      v_challenge_completed == v_days_completed >= days_to_complete
      had_daily_fp == p_action_date \in DOMAIN daily_fp
      fp1 == IF v_challenge_completed
               THEN sync_fp_earnings(completed_challenge_row(v_days_completed),
                                     fp_earnings)
               ELSE fp_earnings
      fp2 == Append(fp1, fp_row("morning_basics_daily", fp_to_award))
      fp3 == IF v_challenge_completed
               THEN Append(fp2, fp_row("morning_basics_completion", bonus_fp))
               ELSE fp2
      dfp1 == v2_daily_fp(daily_fp, p_action_date)
  IN  /\ completed_actions' = InsertRow(completed_actions, p_action_date)
      /\ challenges' =
           [exists |-> TRUE,
            status |-> IF v_challenge_completed THEN "completed"
                       ELSE IF challenges.exists THEN challenges.status
                       ELSE "active",
            verification_count |-> v_days_completed]
      /\ completed_challenges' =
           IF v_challenge_completed
             THEN Append(completed_challenges,
                         completed_challenge_row(v_days_completed))
             ELSE completed_challenges
      /\ fp_earnings' = fp3
      /\ daily_fp' = IF v_challenge_completed
                       THEN v2_daily_fp_bonus(dfp1, p_action_date, had_daily_fp)
                       ELSE dfp1
      /\ result' = [op |-> "complete_morning_basics_action_v2",
                    date |-> p_action_date, success |-> TRUE,
                    fp_earned |-> fp_to_award,
                    days_completed |-> v_days_completed,
                    challenge_completed |-> v_challenge_completed]
      /\ UNCHANGED <<today, fuel_points, custom_challenges,
                     custom_challenge_daily_completions, streakVars>>

v2_failure(p_action_date) ==
  /\ result' = [op |-> "complete_morning_basics_action_v2",
                date |-> p_action_date, success |-> FALSE,
                error |-> "Already completed Morning Basics for today",
                days_completed |-> 0]
  /\ UNCHANGED <<today, ledgerVars, streakVars>>

\* complete_morning_basics_action_v2(p_user_id, 'mb0', p_action_date)
CompleteMorningBasicsActionV2(p_action_date) ==
  /\ IF v2_already_completed(p_action_date)
       THEN v2_failure(p_action_date)
       ELSE v2_completion(challenges, p_action_date)
  /\ UNCHANGED <<sessionVars, insightVars, accountVars, assessmentVars>>

\* handle_morning_basics_completion from "Get or create challenge record" to
\* its RETURN, for a call that passed the check; seen is the challenges row its
\* SELECT found
\* failing: the statements inside a BEGIN ... EXCEPTION WHEN OTHERS block that
\* raise an error in this call; the handler only notes it in debug_info
handle_completion(seen, has_completed_challenge, today_date, failing) ==
  LET current_verification_count ==
        IF seen.exists THEN seen.verification_count + 1 ELSE 1
      \* the completion check is made only for a challenge that exists
      challenge_completed ==
        seen.exists /\ current_verification_count >= days_to_complete
      record_completion == challenge_completed /\ ~has_completed_challenge
      \* the bonus entry is inserted before the inner block begins
      fp0 == IF record_completion
               THEN Append(fp_earnings, fp_row("mb0", bonus_fp))
               ELSE fp_earnings
      row_inserted == record_completion /\ "completed_challenges" \notin failing
      fp1 == IF row_inserted
               THEN sync_fp_earnings(completed_challenge_row(days_to_complete), fp0)
               ELSE fp0
      fp2 == IF "fp_earnings" \in failing THEN fp1
             ELSE Append(fp1, fp_row("morning_basics_daily", fp_to_award))
      awarded == fp_to_award + (IF challenge_completed THEN bonus_fp ELSE 0)
  IN  /\ challenges' =
           [exists |-> TRUE,
            status |-> IF challenge_completed THEN "completed"
                       ELSE IF challenges.exists THEN challenges.status
                       ELSE "active",
            verification_count |-> current_verification_count]
      /\ completed_challenges' =
           IF row_inserted
             THEN Append(completed_challenges,
                         completed_challenge_row(days_to_complete))
             ELSE completed_challenges
      /\ completed_actions' = InsertRow(completed_actions, today_date)
      /\ fp_earnings' = fp2
      /\ daily_fp' =
           IF "daily_fp" \in failing THEN daily_fp
           ELSE IF today_date \in DOMAIN daily_fp
             THEN [daily_fp EXCEPT ![today_date].fp_earned = @ + awarded,
                                   ![today_date].boosts_completed = @ + 1]
             ELSE daily_fp @@
                    (today_date :> [fp_earned |-> awarded, boosts_completed |-> 1,
                                    challenges_completed |-> 0])
      /\ fuel_points' = IF "users" \in failing THEN fuel_points
                         ELSE fuel_points + awarded
      /\ result' = [op |-> "handle_morning_basics_completion",
                    date |-> today_date, success |-> TRUE,
                    fp_earned |-> awarded,
                    days_completed |-> current_verification_count,
                    challenge_completed |-> challenge_completed]
      /\ UNCHANGED <<today, custom_challenges,
                     custom_challenge_daily_completions, streakVars>>

handle_failure(today_date) ==
  /\ result' = [op |-> "handle_morning_basics_completion",
                date |-> today_date, success |-> FALSE,
                error |-> "Already completed today"]
  /\ UNCHANGED <<today, ledgerVars, streakVars>>

\* SELECT EXISTS (SELECT 1 FROM completed_challenges WHERE challenge_id = 'mb0')
mb0_completed == Len(completed_challenges) > 0

\* handle_morning_basics_completion(), called by the authenticated user
HandleMorningBasicsCompletion ==
  /\ IF existing_completion(today)
       THEN handle_failure(today)
       ELSE handle_completion(challenges, mb0_completed, today, {})
  /\ UNCHANGED <<sessionVars, insightVars, accountVars, assessmentVars>>

\* the statements of handle_morning_basics_completion whose errors are caught
\* by a handler of their own
HandledStatements == {"completed_challenges", "fp_earnings", "daily_fp", "users"}

\* handle_morning_basics_completion() when some of these statements raise
HandleMorningBasicsCompletionWithErrors ==
  /\ \E failing \in SUBSET HandledStatements :
       IF existing_completion(today)
         THEN handle_failure(today)
         ELSE handle_completion(challenges, mb0_completed, today, failing)
  /\ UNCHANGED <<sessionVars, insightVars, accountVars, assessmentVars>>

\* fix_morning_basics_challenges(), for the one user of the ledger tables
FixMorningBasicsChallenges ==
  LET v_challenge_record == challenges
      to_fix == /\ v_challenge_record.exists
                /\ v_challenge_record.verification_count >= 21
                /\ v_challenge_record.status = "completed"
      missing == to_fix /\ ~mb0_completed
  IN  /\ fp_earnings' =
           IF missing
             THEN sync_fp_earnings(completed_challenge_row(21),
                                   Append(fp_earnings, fp_row("mb0", 50)))
             ELSE fp_earnings
      /\ completed_challenges' =
           IF missing THEN Append(completed_challenges, completed_challenge_row(21))
           ELSE completed_challenges
      /\ result' = [op |-> "fix_morning_basics_challenges", success |-> TRUE,
                    fixed_count |-> IF missing THEN 1 ELSE 0,
                    already_completed_count |->
                      IF to_fix /\ mb0_completed THEN 1 ELSE 0]
      /\ UNCHANGED <<today, challenges, completed_actions, daily_fp, fuel_points,
                     custom_challenges, custom_challenge_daily_completions,
                     streakVars, sessionVars, insightVars, accountVars,
                     assessmentVars>>

----------------------------------------------------------------------------
(* Custom challenges: royal_bush.sql, complete_custom_challenge_daily(TEXT) *)

\* the ids of the custom_challenge_actions rows of the user's challenge
ChallengeActions == {"a1", "a2"}
\* "other" is the id of an action of another challenge; "not-a-uuid" is a text
\* that the cast (v_action->>'action_id')::UUID refuses
ActionIds == ChallengeActions \cup {"other", "not-a-uuid"}

\* p_completed_actions: JSON arrays of at most MaxActions {action_id} objects
Submissions == UNION {[1..n -> ActionIds] : n \in 0..MaxActions}

custom_fp_row(fp_amount, title) ==
  [item_id |-> "custom", item_type |-> "challenge", fp_amount |-> fp_amount,
   title |-> title]

custom_failure(error) ==
  /\ result' = [op |-> "complete_custom_challenge_daily", date |-> today,
                success |-> FALSE, error |-> error]
  /\ UNCHANGED <<today, ledgerVars, streakVars>>

\* a variant of custom_exception whose handler keeps the daily completion row
\* the call had inserted when the error was raised
custom_exception_keeps_row(error) ==
  /\ result' = [op |-> "complete_custom_challenge_daily", date |-> today,
                success |-> FALSE, error |-> error]
  /\ custom_challenge_daily_completions' =
       Append(custom_challenge_daily_completions,
              [completion_date |-> today, actions_completed |-> 0,
               minimum_met |-> FALSE])
  /\ UNCHANGED <<today, challenges, completed_actions, completed_challenges,
                 fp_earnings, daily_fp, fuel_points, custom_challenges, streakVars>>

\* EXCEPTION WHEN OTHERS of complete_custom_challenge_daily: the block's writes
\* are undone, the error is logged to debug_logs and returned
custom_exception(error) ==
  /\ result' = [op |-> "complete_custom_challenge_daily", date |-> today,
                success |-> FALSE, error |-> error]
  /\ UNCHANGED <<today, ledgerVars, streakVars>>

\* the loop reaches an element whose action_id is not a UUID
malformed(acts) == \E i \in 1..Len(acts) : acts[i] = "not-a-uuid"

\* a variant of custom_completed_on that only finds rows with minimum_met
custom_met_on(rows, v_today) ==
  \E i \in 1..Len(rows) : rows[i].completion_date = v_today /\ rows[i].minimum_met

\* EXISTS (SELECT 1 FROM custom_challenge_daily_completions WHERE
\* custom_challenge_id = p_challenge_id AND completion_date = v_today)
custom_completed_on(rows, v_today) ==
  \E i \in 1..Len(rows) : rows[i].completion_date = v_today

\* the loop over jsonb_array_elements: one action completion per element whose
\* action_id is an action of this challenge
valid_actions(acts) == SelectSeq(acts, LAMBDA a : a \in ChallengeActions)

\* the checks a call makes on the row v_challenge before it writes: the error
\* it returns, "" when it goes on
custom_rejection(v_challenge, v_today) ==
  IF ~v_challenge.exists THEN "Challenge not found or does not belong to user"
  ELSE IF v_challenge.status # "active" THEN "Challenge is not active"
  ELSE IF custom_completed_on(custom_challenge_daily_completions, v_today)
    THEN "Challenge already completed today"
  ELSE ""

\* complete_custom_challenge_daily from "Create daily completion record" to its
\* RETURN; v_challenge is the row read at the start of the call, daily_fp_found
\* what its SELECT on daily_fp found
custom_completion(v_challenge, acts, daily_fp_found) ==
  LET v_today == today
      v_actions_completed == Len(valid_actions(acts))
      v_minimum_met == v_actions_completed >= v_challenge.daily_minimum
      \* UPDATE ... SET total_completions = total_completions + 1 RETURNING
      v_total_completions == custom_challenges.total_completions + 1
      v_is_completed ==
        v_minimum_met /\ v_total_completions >= v_challenge.target_completions
      v_fp_earned ==
        IF ~v_minimum_met THEN 0
        ELSE v_challenge.fp_daily_reward
             + (IF v_is_completed THEN v_challenge.fp_completion_reward ELSE 0)
      fp1 == Append(fp_earnings,
                    custom_fp_row(v_challenge.fp_daily_reward,
                                  "Custom Challenge Daily Completion"))
      fp2 == IF v_is_completed
               THEN Append(fp1, custom_fp_row(v_challenge.fp_completion_reward,
                                              "Custom Challenge Completion Bonus"))
               ELSE fp1
  IN  /\ custom_challenge_daily_completions' =
           Append(custom_challenge_daily_completions,
                  [completion_date |-> v_today,
                   actions_completed |-> v_actions_completed,
                   minimum_met |-> v_minimum_met])
      /\ IF v_minimum_met
           THEN /\ fp_earnings' = fp2
                /\ daily_fp' =
                     IF daily_fp_found
                       THEN [daily_fp EXCEPT
                               ![v_today].fp_earned = @ + v_fp_earned,
                               ![v_today].challenges_completed = @ + 1]
                       ELSE daily_fp @@
                              (v_today :> [fp_earned |-> v_fp_earned,
                                           boosts_completed |-> 0,
                                           challenges_completed |-> 1])
                /\ custom_challenges' =
                     [custom_challenges EXCEPT
                        !.total_completions = v_total_completions,
                        !.last_completion_date = {v_today},
                        !.status = IF v_is_completed THEN "completed" ELSE @]
                /\ fuel_points' = fuel_points + v_fp_earned
           ELSE UNCHANGED <<fp_earnings, daily_fp, custom_challenges, fuel_points>>
      /\ result' = [op |-> "complete_custom_challenge_daily", date |-> v_today,
                    success |-> TRUE, minimum_met |-> v_minimum_met,
                    actions_completed |-> v_actions_completed,
                    fp_earned |-> v_fp_earned, is_completed |-> v_is_completed]
      /\ UNCHANGED <<today, challenges, completed_actions, completed_challenges,
                     streakVars>>

\* complete_custom_challenge_daily(p_user_id, p_challenge_id, p_completed_actions)
CompleteCustomChallengeDaily(acts) ==
  /\ IF custom_rejection(custom_challenges, today) # ""
       THEN custom_failure(custom_rejection(custom_challenges, today))
     ELSE IF malformed(acts)
       THEN custom_exception("invalid input syntax for type uuid")
       ELSE custom_completion(custom_challenges, acts, today \in DOMAIN daily_fp)
  /\ UNCHANGED <<sessionVars, insightVars, accountVars, assessmentVars>>

----------------------------------------------------------------------------
(* Community insights: shrill_lantern.sql (challenge_actions counter) and
   jade_oasis.sql (calculate_daily_user_insights).  Of the columns of
   all_user_insights the model keeps challenge_actions and the aggregates over
   chat_messages, completed_actions and daily_fp; the other columns are set in
   the same INSERT and UPDATE from counts over tables that are not modelled. *)

\* the ids of the all_user_insights rows WHERE date = d
InsightIds(rows, d) == {i \in 1..Len(rows) : rows[i].date = d}

\* SELECT COUNT(*) FROM chat_messages WHERE is_verification = TRUE AND
\* DATE(created_at) = d
verification_posts(msgs, d) ==
  Cardinality({i \in 1..Len(msgs) : msgs[i].created_on = d /\ msgs[i].is_verification})

\* SELECT COUNT(*) FROM chat_messages WHERE DATE(created_at) = d
chat_messages_on(msgs, d) ==
  Cardinality({i \in 1..Len(msgs) : msgs[i].created_on = d})

\* a variant of is_challenge_action that counts every message
is_any_message(NEW_row) == TRUE

\* update_challenge_action_count: IF NEW.is_verification = TRUE
is_challenge_action(NEW_row) == NEW_row.is_verification = TRUE

\* update_challenge_action_count: UPDATE all_user_insights SET challenge_actions
\* = COALESCE(challenge_actions, 0) + 1 WHERE date = today_date
increment_challenge_actions(rows, today_date) ==
  [i \in 1..Len(rows) |->
     IF rows[i].date = today_date
       THEN [rows[i] EXCEPT !.challenge_actions = @ + 1]
       ELSE rows[i]]

\* update_challenge_action_count(), the AFTER INSERT trigger on chat_messages,
\* run for the inserted row NEW_row on all_user_insights contents rows
update_challenge_action_count(NEW_row, rows) ==
  LET today_date == today
  IN  IF is_challenge_action(NEW_row)
        THEN IF InsightIds(rows, today_date) = {}
               THEN Append(rows, [date |-> today_date, challenge_actions |-> 1,
                                  aggregates |-> NoRow])
               ELSE increment_challenge_actions(rows, today_date)
        ELSE rows

\* INSERT INTO chat_messages (created_at = now()), with its trigger
InsertChatMessage(is_verification) ==
  /\ Len(chat_messages) < MaxMessages
  /\ LET NEW_row == [created_on |-> today, is_verification |-> is_verification]
     IN  /\ chat_messages' = Append(chat_messages, NEW_row)
         /\ all_user_insights' =
              update_challenge_action_count(NEW_row, all_user_insights)
  /\ result' = [op |-> "insert_chat_message", is_verification |-> is_verification]
  /\ UNCHANGED <<today, streakVars, ledgerVars, sessionVars, accountVars, assessmentVars>>

\* recalculate_challenge_actions()
RecalculateChallengeActions ==
  /\ all_user_insights' =
       [i \in 1..Len(all_user_insights) |->
          [all_user_insights[i] EXCEPT
             !.challenge_actions =
               verification_posts(chat_messages, all_user_insights[i].date)]]
  /\ result' = [op |-> "recalculate_challenge_actions"]
  /\ UNCHANGED <<today, chat_messages, streakVars, ledgerVars, sessionVars, accountVars, assessmentVars>>

\* the values calculate_daily_user_insights(p_date) computes
daily_user_insights(p_date) ==
  LET v_total_fp_earned ==
        IF p_date \in DOMAIN daily_fp THEN daily_fp[p_date].fp_earned ELSE 0
      v_active_users == IF v_total_fp_earned > 0 THEN 1 ELSE 0
      \* v_morning_basics_actions + v_other_challenge_actions
      v_challenge_actions == CountRows(completed_actions, p_date)
  IN  [date |-> p_date,
       challenge_actions |-> v_challenge_actions,
       aggregates |->
         [exists |-> TRUE,
          active_users |-> v_active_users,
          total_fp_earned |-> v_total_fp_earned,
          total_chat_messages |-> chat_messages_on(chat_messages, p_date),
          total_verification_posts |-> verification_posts(chat_messages, p_date),
          total_lifetime_chat_messages |-> Len(chat_messages)]]

\* a variant of save_insights that inserts without looking for the date's row
insert_insights(rows, v_existing_record_id, insights) == Append(rows, insights)

\* calculate_daily_user_insights: "Insert or update the record";
\* v_existing_record_id is 0 for NULL
save_insights(rows, v_existing_record_id, insights) ==
  IF v_existing_record_id = 0
    THEN Append(rows, insights)
    ELSE [rows EXCEPT ![v_existing_record_id] = insights]

\* what SELECT id INTO v_existing_record_id FROM all_user_insights WHERE
\* date = p_date can return: 0 (NULL) without a row, else the id of one of the
\* date's rows
existing_record_ids(rows, p_date) ==
  IF InsightIds(rows, p_date) = {} THEN {0} ELSE InsightIds(rows, p_date)

\* calculate_daily_user_insights(p_date)
CalculateDailyUserInsights(p_date) ==
  /\ \E v_existing_record_id \in existing_record_ids(all_user_insights, p_date) :
       all_user_insights' = save_insights(all_user_insights, v_existing_record_id,
                                          daily_user_insights(p_date))
  /\ result' = [op |-> "calculate_daily_user_insights", date |-> p_date,
                success |-> TRUE]
  /\ UNCHANGED <<today, chat_messages, streakVars, ledgerVars, sessionVars, accountVars, assessmentVars>>

----------------------------------------------------------------------------
(* What the claims compare the stored streaks with *)

\* the number of consecutive dates of S ending at d (0 when d is not in S)
RunLenEndingAt(S, d) == SetMin({i \in 0..Cardinality(S) : (d - i) \notin S})

\* the longest run of consecutive dates anywhere in S
LongestRunOf(S) ==
  IF S = {} THEN 0
  ELSE SetMax({RunLenEndingAt(S, d) : d \in {x \in S : x + 1 \notin S}})

BoostDays(u) == DOMAIN completed_boosts[u]

\* the most recent completed_date of user u (defined when the user has boosts)
MostRecentBoost(u) == SetMax(BoostDays(u))

----------------------------------------------------------------------------
(* Initial states *)

\* the tables the streak procedures do not touch, in the streak specification
LedgerIdle ==
  /\ challenges = NoRow
  /\ completed_actions = EmptyBag
  /\ completed_challenges = << >>
  /\ fp_earnings = << >>
  /\ daily_fp = EmptyBag
  /\ fuel_points = 0
  /\ custom_challenges = NoRow
  /\ custom_challenge_daily_completions = << >>

SessionsIdle ==
  /\ pc = [s \in {} |-> "idle"]
  /\ fn = [s \in {} |-> "none"]
  /\ loc = [s \in {} |-> NoRow]

AssessmentsIdle ==
  /\ health_assessments = {}
  /\ loading = FALSE
  /\ hook_error = {}
  /\ rpc_calls = 0
  /\ retryCount = 0
  /\ timers = << >>

AccountsIdle ==
  /\ user_fp_earnings = [u \in Users |-> {}]
  /\ user_daily_fp = [u \in Users |-> {}]
  /\ user_fuel_points = [u \in Users |-> 0]
  /\ AssessmentsIdle

InsightsIdle ==
  /\ chat_messages = << >>
  /\ all_user_insights = << >>
  /\ AccountsIdle

\* completed_boosts histories present when the migration is installed
\* (it ends by recalculating every user "to correct existing data"):
\* no boosts; a run ending yesterday or three days ago; an older, longer run
\* followed by a gap and one boost yesterday; a long run ending today
ShortHistories ==
  {EmptyBag}
  \cup {RunBag(e - len + 1, e) : len \in 1..ShortRun, e \in {-1, -3}}
  \cup {RunBag(-4 - ShortRun, -4) @@ RunBag(-1, -1)}

LongHistories ==
  {RunBag(1 - len, 0) :
     len \in (v_max_days_to_check - LongRunSlack)..(v_max_days_to_check + LongRunSlack)}

InitHistories(u) ==
  IF u = "u1" THEN ShortHistories \cup LongHistories
  ELSE {EmptyBag, RunBag(-1, -1)}

\* the streak earlier revisions stored (fix_user_burn_streak in
\* broken_limit.sql counts the run ending today or yesterday)
trailing_run(S, asOf) ==
  IF asOf \in S THEN RunLenEndingAt(S, asOf) ELSE RunLenEndingAt(S, asOf - 1)

\* users.burn_streak as stored before: by this revision or by an earlier one
InitStreaks(cb, u) ==
  {calculate_burn_streak(cb, u, 0), trailing_run(DOMAIN cb[u], 0)}

\* users.longest_burn_streak as stored before, at least burn_streak
InitLongest(cb, bs, u) ==
  {bs[u], Greatest(bs[u], LongestRunOf(DOMAIN cb[u]))}

InitStreak ==
  /\ today = 0
  /\ result = [op |-> "init"]
  /\ n_inserts = 0
  /\ manual_burn_streak_fixes = {}
  /\ completed_boosts \in
       {h \in [Users -> UNION {InitHistories(u) : u \in Users}] :
          \A u \in Users : h[u] \in InitHistories(u)}
  /\ burn_streak \in
       {b \in [Users -> UNION {InitStreaks(completed_boosts, u) : u \in Users}] :
          \A u \in Users : b[u] \in InitStreaks(completed_boosts, u)}
  /\ longest_burn_streak \in
       {l \in [Users -> UNION {InitLongest(completed_boosts, burn_streak, u) : u \in Users}] :
          \A u \in Users : l[u] \in InitLongest(completed_boosts, burn_streak, u)}
  /\ LedgerIdle
  /\ SessionsIdle
  /\ InsightsIdle

NextStreak ==
  \/ \E u \in Users : InsertBoost(u)
  \/ \E u \in Users : RecalculateBurnStreak(u)
  \/ RecalculateAllBurnStreaks
  \/ ResetMissedBurnStreaks
  \/ NextDay

SpecStreak == InitStreak /\ [][NextStreak]_vars

\* the stored streaks right after recalculate_all_burn_streaks
InitReconciled ==
  /\ InitStreak
  /\ \A u \in Users :
       burn_streak[u] = calculate_burn_streak(completed_boosts, u, today)

NextBoostDay ==
  \/ \E u \in Users : InsertBoost(u)
  \/ ResetMissedBurnStreaks

\* boosts completed and reset_missed_burn_streaks run within one calendar day
SpecBoostDay == InitReconciled /\ [][NextBoostDay]_vars

----------------------------------------------------------------------------
(* The challenge procedures, called one after the other *)

StreakIdle ==
  /\ completed_boosts = [u \in Users |-> EmptyBag]
  /\ burn_streak = [u \in Users |-> 0]
  /\ longest_burn_streak = [u \in Users |-> 0]
  /\ manual_burn_streak_fixes = {}
  /\ n_inserts = 0

\* a custom_challenges row when it was created: active, nothing completed
new_custom_challenge(daily_minimum, target_completions, fp_daily_reward) ==
  [exists |-> TRUE, status |-> "active", total_completions |-> 0,
   last_completion_date |-> {}, daily_minimum |-> daily_minimum,
   target_completions |-> target_completions,
   fp_daily_reward |-> fp_daily_reward, fp_completion_reward |-> 100]

\* the user's custom challenge: two days to complete, 10 FP a day
InitCustomChallenges == {new_custom_challenge(dm, 2, 10) : dm \in 1..2}

\* custom challenges of one or two days
ShortCustomChallenges ==
  {new_custom_challenge(dm, target, 10) : dm \in 1..2, target \in 1..2}

\* the tables after k successful daily Morning Basics completions on the k days
\* before day 0 (k = 0: the user has not started), k below days_to_complete
LedgerAfter(k) ==
  /\ challenges = IF k = 0 THEN NoRow
                  ELSE [exists |-> TRUE, status |-> "active", verification_count |-> k]
  /\ completed_actions = RunBag(-k, -1)
  /\ completed_challenges = << >>
  /\ fp_earnings = [i \in 1..k |-> fp_row("morning_basics_daily", fp_to_award)]
  /\ daily_fp = [d \in (-k)..(-1) |->
                   [fp_earned |-> fp_to_award, boosts_completed |-> 1,
                    challenges_completed |-> 0]]
  /\ fuel_points = k * fp_to_award

\* the user has not started, or is so far that day 21 falls within the days
\* the model runs through
StartCounts == {0} \cup ((days_to_complete - MaxDay - 1)..(days_to_complete - 1))

InitTables(custom_challenge_rows) ==
  /\ today = 0
  /\ result = [op |-> "init"]
  /\ \E k \in StartCounts : LedgerAfter(k)
  /\ custom_challenges \in custom_challenge_rows
  /\ custom_challenge_daily_completions = << >>
  /\ StreakIdle
  /\ SessionsIdle
  /\ InsightsIdle

InitLedger == InitTables(InitCustomChallenges)

\* p_action_date: the caller's local date, CURRENT_DATE or the day before it
ActionDates == {today - 1, today}

NextMB ==
  \/ \E d \in ActionDates : CompleteMorningBasicsActionV2(d)
  \/ HandleMorningBasicsCompletion
  \/ NextDay

\* Morning Basics completions through either function
SpecMB == InitLedger /\ [][NextMB]_vars

NextLedger ==
  \/ HandleMorningBasicsCompletion
  \/ \E acts \in Submissions : CompleteCustomChallengeDaily(acts)
  \/ NextDay

\* the two functions that maintain users.fuel_points themselves
SpecLedger == InitLedger /\ [][NextLedger]_vars

NextChallenges ==
  \/ \E d \in ActionDates : CompleteMorningBasicsActionV2(d)
  \/ HandleMorningBasicsCompletion
  \/ \E acts \in Submissions : CompleteCustomChallengeDaily(acts)
  \/ NextDay

\* the three daily completion functions, called one after the other
SpecChallenges == InitLedger /\ [][NextChallenges]_vars

NextOneDay ==
  \/ \E d \in ActionDates : CompleteMorningBasicsActionV2(d)
  \/ HandleMorningBasicsCompletion
  \/ \E acts \in Submissions : CompleteCustomChallengeDaily(acts)

InitOneDay == InitTables(ShortCustomChallenges)

\* the three daily completion functions called repeatedly within one day
SpecOneDay == InitOneDay /\ [][NextOneDay]_vars

----------------------------------------------------------------------------
(* Community insights, one call after the other *)

InitInsights ==
  /\ today = 0
  /\ result = [op |-> "init"]
  /\ StreakIdle
  /\ LedgerIdle
  /\ SessionsIdle
  /\ InsightsIdle

NextChat ==
  \/ \E v \in BOOLEAN : InsertChatMessage(v)
  \/ RecalculateChallengeActions
  \/ NextDay

\* chat messages and the challenge_actions counter
SpecChat == InitInsights /\ [][NextChat]_vars

NextInsights ==
  \/ \E v \in BOOLEAN : InsertChatMessage(v)
  \/ \E d \in ActionDates : CalculateDailyUserInsights(d)
  \/ HandleMorningBasicsCompletion

\* the daily snapshot and the writes made to its source tables within a day
SpecInsights == InitInsights /\ [][NextInsights]_vars

----------------------------------------------------------------------------
(* Two sessions calling the completion functions for the same user and date.
   Each call is one transaction at READ COMMITTED: a statement reads what was
   committed when it starts, and what a call writes is seen by the other
   session once the call has returned. No statement of these functions takes a
   lock before the first write, and src declares no unique index on
   completed_actions or custom_challenge_daily_completions; daily_fp has one
   on (user_id, date), the arbiter of ON CONFLICT (user_id, date) in
   handle_morning_basics_completion. A call's UPDATE of the challenges row
   waits for a concurrent call that has updated the row, so what a Morning
   Basics call does after that UPDATE follows the other call's commit. *)

Sessions == {"s1", "s2"}

MorningBasicsFunctions ==
  {"complete_morning_basics_action_v2", "handle_morning_basics_completion"}

NoLocals ==
  [acts |-> << >>, seen_challenge |-> NoRow, has_completed_challenge |-> FALSE,
   daily_fp_found |-> FALSE]

InitConc ==
  /\ today = 0
  /\ result = [op |-> "init"]
  /\ \E k \in StartCounts \ {0} : LedgerAfter(k)
  /\ custom_challenges \in InitCustomChallenges
  /\ custom_challenge_daily_completions = << >>
  /\ StreakIdle
  /\ pc = [s \in Sessions |-> "idle"]
  /\ fn = [s \in Sessions |-> "none"]
  /\ loc = [s \in Sessions |-> NoLocals]
  /\ InsightsIdle

\* session s calls Morning Basics function f for CURRENT_DATE and makes the
\* "already completed" check
CallMorningBasics(s, f) ==
  /\ pc[s] = "idle"
  /\ fn' = [fn EXCEPT ![s] = f]
  /\ UNCHANGED <<loc, insightVars, accountVars, assessmentVars>>
  /\ IF f = "complete_morning_basics_action_v2"
       THEN IF v2_already_completed(today)
              THEN v2_failure(today) /\ pc' = [pc EXCEPT ![s] = "failed"]
              ELSE /\ pc' = [pc EXCEPT ![s] = "checked"]
                   /\ UNCHANGED <<today, result, ledgerVars, streakVars>>
       ELSE IF existing_completion(today)
              THEN handle_failure(today) /\ pc' = [pc EXCEPT ![s] = "failed"]
              ELSE /\ pc' = [pc EXCEPT ![s] = "checked"]
                   /\ UNCHANGED <<today, result, ledgerVars, streakVars>>

\* session s calls complete_custom_challenge_daily: it reads the challenge row
\* and makes its checks
CallCustomChallenge(s, acts) ==
  /\ pc[s] = "idle"
  /\ fn' = [fn EXCEPT ![s] = "complete_custom_challenge_daily"]
  /\ UNCHANGED <<insightVars, accountVars, assessmentVars>>
  /\ IF custom_rejection(custom_challenges, today) # ""
       THEN /\ custom_failure(custom_rejection(custom_challenges, today))
            /\ pc' = [pc EXCEPT ![s] = "failed"]
            /\ UNCHANGED loc
       ELSE /\ pc' = [pc EXCEPT ![s] = "checked"]
            /\ loc' = [loc EXCEPT ![s].acts = acts,
                                  ![s].seen_challenge = custom_challenges]
            /\ UNCHANGED <<today, result, ledgerVars, streakVars>>

\* the SELECTs a call makes after its check and before it takes a lock: the
\* Morning Basics functions read completed_challenges and the challenges row,
\* complete_custom_challenge_daily looks for the day's daily_fp row
ReadRows(s) ==
  /\ pc[s] = "checked"
  /\ pc' = [pc EXCEPT ![s] = "read"]
  /\ loc' = IF fn[s] \in MorningBasicsFunctions
              THEN [loc EXCEPT ![s].seen_challenge = challenges,
                               ![s].has_completed_challenge = mb0_completed]
              ELSE [loc EXCEPT ![s].daily_fp_found = today \in DOMAIN daily_fp]
  /\ UNCHANGED <<today, result, fn, ledgerVars, streakVars, insightVars, accountVars, assessmentVars>>

\* INSERT INTO daily_fp by a call that found no row for the day, after the other
\* session committed one: unique_violation, caught by the function's EXCEPTION
\* WHEN OTHERS, which undoes what the call wrote and returns the error
daily_fp_conflict(s) ==
  /\ fn[s] = "complete_custom_challenge_daily"
  /\ ~malformed(loc[s].acts)
  /\ Len(valid_actions(loc[s].acts)) >= loc[s].seen_challenge.daily_minimum
  /\ ~loc[s].daily_fp_found
  /\ today \in DOMAIN daily_fp

\* session s's call writes and returns
Return(s) ==
  /\ pc[s] = "read"
  /\ UNCHANGED <<fn, loc, insightVars, accountVars, assessmentVars>>
  /\ IF daily_fp_conflict(s)
       THEN /\ custom_exception("duplicate key value violates unique constraint")
            /\ pc' = [pc EXCEPT ![s] = "failed"]
     ELSE IF fn[s] = "complete_custom_challenge_daily" /\ malformed(loc[s].acts)
       THEN /\ custom_exception("invalid input syntax for type uuid")
            /\ pc' = [pc EXCEPT ![s] = "failed"]
       ELSE /\ pc' = [pc EXCEPT ![s] = "succeeded"]
            /\ IF fn[s] = "complete_morning_basics_action_v2"
                 THEN v2_completion(loc[s].seen_challenge, today)
               ELSE IF fn[s] = "handle_morning_basics_completion"
                 THEN handle_completion(loc[s].seen_challenge,
                                        loc[s].has_completed_challenge, today, {})
               ELSE custom_completion(loc[s].seen_challenge, loc[s].acts,
                                      loc[s].daily_fp_found)

NextConc ==
  \/ \E s \in Sessions, f \in MorningBasicsFunctions : CallMorningBasics(s, f)
  \/ \E s \in Sessions, acts \in Submissions : CallCustomChallenge(s, acts)
  \/ \E s \in Sessions : ReadRows(s)
  \/ \E s \in Sessions : Return(s)

SpecConc == InitConc /\ [][NextConc]_vars

----------------------------------------------------------------------------
(* Two sessions writing all_user_insights: calculate_daily_user_insights and the
   trigger update_challenge_action_count both SELECT the date's row and then
   INSERT or UPDATE; src declares no unique index on all_user_insights.date *)

NoInsightLocals == [v_existing_record_id |-> 0, insights |-> NoRow]

InitInsightsConc ==
  /\ today = 0
  /\ result = [op |-> "init"]
  /\ StreakIdle
  /\ LedgerIdle
  /\ InsightsIdle
  /\ pc = [s \in Sessions |-> "idle"]
  /\ fn = [s \in Sessions |-> "none"]
  /\ loc = [s \in Sessions |-> NoInsightLocals]

\* session s calls calculate_daily_user_insights(CURRENT_DATE): the aggregate
\* SELECTs and "Check if a record already exists for this date"
SelectForCalculate(s) ==
  /\ pc[s] = "idle"
  /\ pc' = [pc EXCEPT ![s] = "selected"]
  /\ fn' = [fn EXCEPT ![s] = "calculate_daily_user_insights"]
  /\ \E id \in existing_record_ids(all_user_insights, today) :
       loc' = [loc EXCEPT ![s] = [v_existing_record_id |-> id,
                                  insights |-> daily_user_insights(today)]]
  /\ UNCHANGED <<today, result, streakVars, ledgerVars, insightVars, accountVars, assessmentVars>>

\* session s inserts a verification message; the trigger makes its SELECT *
\* INTO insight_record
SelectForTrigger(s) ==
  /\ pc[s] = "idle"
  /\ Len(chat_messages) < MaxMessages
  /\ pc' = [pc EXCEPT ![s] = "selected"]
  /\ fn' = [fn EXCEPT ![s] = "update_challenge_action_count"]
  /\ \E id \in existing_record_ids(all_user_insights, today) :
       loc' = [loc EXCEPT ![s] = [v_existing_record_id |-> id, insights |-> NoRow]]
  /\ UNCHANGED <<today, result, streakVars, ledgerVars, insightVars, accountVars, assessmentVars>>

\* session s's INSERT or UPDATE of all_user_insights, and its commit
WriteInsights(s) ==
  /\ pc[s] = "selected"
  /\ pc' = [pc EXCEPT ![s] = "idle"]
  /\ IF fn[s] = "calculate_daily_user_insights"
       THEN /\ all_user_insights' =
                 save_insights(all_user_insights, loc[s].v_existing_record_id,
                               loc[s].insights)
            /\ UNCHANGED chat_messages
       ELSE /\ chat_messages' =
                 Append(chat_messages, [created_on |-> today, is_verification |-> TRUE])
            /\ all_user_insights' =
                 IF loc[s].v_existing_record_id = 0
                   THEN Append(all_user_insights,
                               [date |-> today, challenge_actions |-> 1,
                                aggregates |-> NoRow])
                   ELSE increment_challenge_actions(all_user_insights, today)
  /\ result' = [op |-> fn[s]]
  /\ UNCHANGED <<today, fn, loc, streakVars, ledgerVars, accountVars, assessmentVars>>

NextInsightsConc ==
  \/ \E s \in Sessions : SelectForCalculate(s)
  \/ \E s \in Sessions : SelectForTrigger(s)
  \/ \E s \in Sessions : WriteInsights(s)

SpecInsightsConc == InitInsightsConc /\ [][NextInsightsConc]_vars

----------------------------------------------------------------------------
(* Awards with the triggers of both tables: update_burn_streak_on_boost_completion
   (AFTER INSERT ON completed_boosts, FOR EACH ROW) and
   daily_burn_streak_reset_trigger (AFTER INSERT ON daily_fp, FOR EACH STATEMENT) *)

MaxAwards == 2

\* the users the trigger's FOR loop selects: burn_streak > 0, no fp_earnings
\* today, fp_earnings yesterday
reset_candidates(streaks, earnings) ==
  {u \in Users : /\ streaks[u] > 0
                 /\ today \notin earnings[u]
                 /\ (today - 1) \in earnings[u]}

\* check_and_reset_burn_streak: UPDATE users SET burn_streak = 0 for each
check_and_reset_burn_streak(streaks, earnings) ==
  [u \in Users |-> IF u \in reset_candidates(streaks, earnings) THEN 0 ELSE streaks[u]]

\* the award of a daily completion to p_user_id: INSERT INTO fp_earnings, then
\* UPDATE of the day's daily_fp row or INSERT of one (the INSERT statement
\* fires the trigger), then UPDATE users SET fuel_points
AwardDailyFP(p_user_id) ==
  \E v_challenge \in InitCustomChallenges :
    LET v_fp_earned == v_challenge.fp_daily_reward
        earnings == [user_fp_earnings EXCEPT ![p_user_id] = @ \cup {today}]
    IN  /\ user_fuel_points[p_user_id] < MaxAwards * v_fp_earned
        /\ user_fp_earnings' = earnings
        /\ IF today \in user_daily_fp[p_user_id]
             THEN UNCHANGED <<user_daily_fp, burn_streak>>
             ELSE /\ user_daily_fp' = [user_daily_fp EXCEPT ![p_user_id] = @ \cup {today}]
                  /\ burn_streak' =
                       check_and_reset_burn_streak(burn_streak, earnings)
        /\ user_fuel_points' = [user_fuel_points EXCEPT ![p_user_id] = @ + v_fp_earned]
        /\ result' = [op |-> "award_daily_fp", user_id |-> p_user_id]
        /\ UNCHANGED <<today, completed_boosts, longest_burn_streak,
                       manual_burn_streak_fixes, n_inserts, ledgerVars, sessionVars,
                       chat_messages, all_user_insights, assessmentVars>>

InitAwards ==
  /\ today = 0
  /\ result = [op |-> "init"]
  /\ StreakIdle
  /\ LedgerIdle
  /\ SessionsIdle
  /\ InsightsIdle

NextAwards ==
  \/ \E u \in Users : InsertBoost(u)
  \/ \E u \in Users : AwardDailyFP(u)
  \/ NextDay

SpecAwards == InitAwards /\ [][NextAwards]_vars

----------------------------------------------------------------------------
(* recalculate_all_burn_streaks when calls of recalculate_burn_streak fail *)

NextRecalculateAll ==
  \/ \E u \in Users : InsertBoost(u)
  \/ \E failing \in SUBSET Users : recalculate_all_burn_streaks(failing)
  \/ NextDay

SpecRecalculateAll == InitAwards /\ [][NextRecalculateAll]_vars

----------------------------------------------------------------------------
(* Awards of custom challenges whose fp_daily_reward is not positive *)

\* values of custom_challenges.fp_daily_reward, an INTEGER column
RewardAmounts == {-1, 0, 10}

InitRewards ==
  InitTables({new_custom_challenge(dm, target, r) :
                dm \in 1..2, target \in 1..2, r \in RewardAmounts})

\* the three daily completion functions, the custom challenge paying any reward
SpecRewards == InitRewards /\ [][NextOneDay]_vars

----------------------------------------------------------------------------
(* calculate_daily_user_insights: the category averages over the latest health
   assessment of each user *)

MaxAssessments == 3

\* created_at is a timestamp; DATE(created_at) is its day
TicksPerDay == 2

DATE(created_at) == created_at \div TicksPerDay

Timestamps == 0..(2 * TicksPerDay - 1)

CategoryScores == 1..2

\* a session stores an assessment (created_at is supplied by the client)
InsertHealthAssessment(u, created_at, mindset_score) ==
  /\ Cardinality(health_assessments) < MaxAssessments
  /\ health_assessments' =
       health_assessments \cup
         {[user_id |-> u, created_at |-> created_at, mindset_score |-> mindset_score]}
  /\ result' = [op |-> "insert_health_assessment"]
  /\ UNCHANGED <<today, streakVars, ledgerVars, sessionVars, insightVars, accountVars,
                 loading, hook_error, rpc_calls, retryCount, timers>>

assessments_of_any_date(rows, u, p_date) ==
  {r \in rows : r.user_id = u}

\* FROM health_assessments WHERE DATE(created_at) <= p_date, of one user
assessments_until(rows, u, p_date) ==
  {r \in rows : r.user_id = u /\ DATE(r.created_at) <= p_date}

\* the rows that ORDER BY user_id, created_at DESC can put first for the user
first_in_order(rows, u, p_date) ==
  {r \in assessments_until(rows, u, p_date) :
     \A q \in assessments_until(rows, u, p_date) : q.created_at <= r.created_at}

\* WITH latest_assessments AS (SELECT DISTINCT ON (user_id) ...): the results
\* the query can have; rows of one user with equal created_at are in no
\* defined order, DISTINCT ON keeps whichever comes first
latest_assessments(rows, p_date) ==
  LET assessed == {u \in Users : assessments_until(rows, u, p_date) # {}}
  IN  {{f[u] : u \in assessed} :
         f \in {g \in [assessed -> rows] :
                  \A u \in assessed : g[u] \in first_in_order(rows, u, p_date)}}

RECURSIVE sum_mindset_score(_)
sum_mindset_score(rows) ==
  IF rows = {} THEN 0
  ELSE LET r == CHOOSE x \in rows : TRUE
       IN  r.mindset_score + sum_mindset_score(rows \ {r})

\* the statement that computes v_category_averages; AVG is kept as sum and
\* count (no row: NULL)
CategoryAverages(p_date) ==
  /\ \E latest \in latest_assessments(health_assessments, p_date) :
       result' = [op |-> "category_averages", date |-> p_date,
                  latest_assessments |-> latest,
                  mindset |-> [sum |-> sum_mindset_score(latest),
                               count |-> Cardinality(latest)]]
  /\ UNCHANGED <<today, streakVars, ledgerVars, sessionVars, insightVars, accountVars,
                 assessmentVars>>

NextAssessments ==
  \/ \E u \in Users, t \in Timestamps, score \in CategoryScores :
       InsertHealthAssessment(u, t, score)
  \/ \E d \in ActionDates : CategoryAverages(d)

SpecAssessments == InitAwards /\ [][NextAssessments]_vars

----------------------------------------------------------------------------
(* calculate_burn_streak, one LOOP iteration at a time *)

InitLoop ==
  /\ today = 0
  /\ result = [op |-> "init"]
  /\ completed_boosts \in
       {h \in [Users -> UNION {InitHistories(u) : u \in Users}] :
          \A u \in Users : h[u] \in InitHistories(u)}
  /\ burn_streak = [u \in Users |-> 0]
  /\ longest_burn_streak = [u \in Users |-> 0]
  /\ manual_burn_streak_fixes = {}
  /\ n_inserts = 0
  /\ LedgerIdle
  /\ InsightsIdle
  /\ pc = [s \in Sessions |-> "idle"]
  /\ fn = [s \in Sessions |-> "none"]
  /\ loc = [s \in Sessions |-> NoRow]

\* DECLARE v_streak := 0; v_check_date := CURRENT_DATE; v_days_checked := 0
CallCalculateBurnStreak(s, p_user_id) ==
  /\ \A t \in Sessions : pc[t] = "idle"
  /\ pc' = [pc EXCEPT ![s] = "loop"]
  /\ fn' = [fn EXCEPT ![s] = "calculate_burn_streak"]
  /\ loc' = [loc EXCEPT ![s] = [exists |-> TRUE, p_user_id |-> p_user_id, v_streak |-> 0,
                                v_check_date |-> today, v_days_checked |-> 0]]
  /\ UNCHANGED <<today, result, streakVars, ledgerVars, insightVars, accountVars,
                 assessmentVars>>

safety_limit_never_reached(v_days_checked) == FALSE

\* IF v_days_checked >= v_max_days_to_check THEN EXIT
safety_limit_reached(v_days_checked) == v_days_checked >= v_max_days_to_check

\* one pass through the LOOP body; EXIT is followed by RETURN v_streak
LoopIteration(s) ==
  /\ pc[s] = "loop"
  /\ LET l == loc[s]
         v_has_boost == l.v_check_date \in DOMAIN completed_boosts[l.p_user_id]
         next_l == [l EXCEPT !.v_streak = @ + 1, !.v_check_date = @ - 1,
                             !.v_days_checked = @ + 1]
         return(v_streak) ==
           /\ pc' = [pc EXCEPT ![s] = "idle"]
           /\ result' = [op |-> "calculate_burn_streak", user_id |-> l.p_user_id,
                         v_streak |-> v_streak,
                         v_days_checked |-> IF v_has_boost THEN next_l.v_days_checked
                                            ELSE l.v_days_checked]
     IN  IF ~v_has_boost
           THEN /\ return(l.v_streak)
                /\ UNCHANGED loc
           ELSE /\ loc' = [loc EXCEPT ![s] = next_l]
                /\ IF safety_limit_reached(next_l.v_days_checked)
                     THEN return(next_l.v_streak)
                     ELSE UNCHANGED <<pc, result>>
  /\ UNCHANGED <<today, fn, streakVars, ledgerVars, insightVars, accountVars,
                 assessmentVars>>

NextLoop ==
  \/ \E s \in Sessions, u \in Users : CallCalculateBurnStreak(s, u)
  \/ \E s \in Sessions : LoopIteration(s)

\* a call that has started keeps executing
SpecLoop ==
  InitLoop /\ [][NextLoop]_vars /\ \A s \in Sessions : WF_vars(LoopIteration(s))

----------------------------------------------------------------------------
(* useHealthAssessment.submitAssessment (HealthDashboard.tsx).  A JavaScript
   number is NaN or a value; < and > are false when an operand is NaN *)

MaxCalls == 2

NaN == [nan |-> TRUE, v |-> 0]

number(n) == [nan |-> FALSE, v |-> n]

isNaN(a) == a.nan

less_than(a, b) == ~a.nan /\ ~b.nan /\ a.v < b.v

greater_than(a, b) == ~a.nan /\ ~b.nan /\ a.v > b.v

\* data.expectedLifespan and data.expectedHealthspan: values around the limits
SpanInputs == {NaN} \cup {number(n) : n \in {49, 50, 200, 201}}

\* the values calculateHealthScore(data.categoryScores) can return
HealthScores == {NaN} \cup {number(n) : n \in {0, 1, 10, 11}}

\* the hook's userId: string | undefined ({} for undefined)
UserIds == {{}} \cup {{u} : u \in Users}

\* what the RPC call can resolve to
RpcOutcomes == {"success", "error", "not_success"}

lifespan_valid(data) ==
  ~(less_than(data.expectedLifespan, number(50))
      \/ greater_than(data.expectedLifespan, number(200)))

healthspan_valid(data) ==
  ~(less_than(data.expectedHealthspan, number(50))
      \/ greater_than(data.expectedHealthspan, data.expectedLifespan))

health_score_valid(healthScore) ==
  ~(isNaN(healthScore) \/ less_than(healthScore, number(1))
      \/ greater_than(healthScore, number(10)))

submitAssessment(userId, data, healthScore, outcome) ==
  LET call == [op |-> "submitAssessment", userId |-> userId, data |-> data,
               healthScore |-> healthScore]
      returns(value) == result' = call @@ [thrown |-> FALSE, returned |-> value]
      throws(message) == /\ result' = call @@ [thrown |-> TRUE, returned |-> "none"]
                         /\ hook_error' = {message}
                         /\ loading' = FALSE
  IN  /\ IF userId = {}
           THEN /\ returns("undefined")
                /\ UNCHANGED <<loading, hook_error, rpc_calls>>
           ELSE IF ~lifespan_valid(data)
             THEN /\ throws("Expected lifespan must be between 50 and 200")
                  /\ UNCHANGED rpc_calls
           ELSE IF ~healthspan_valid(data)
             THEN /\ throws("Expected healthspan must be between 50 and your expected lifespan")
                  /\ UNCHANGED rpc_calls
           ELSE IF ~health_score_valid(healthScore)
             THEN /\ throws("Invalid health score calculated")
                  /\ UNCHANGED rpc_calls
           ELSE /\ rpc_calls < MaxCalls
                /\ rpc_calls' = rpc_calls + 1
                /\ IF outcome = "success"
                     THEN /\ returns("true")
                          \* checkEligibility() clears the error or sets its own
                          /\ hook_error' \in {{}, {"Failed to check eligibility"}}
                          /\ loading' = FALSE
                     ELSE throws(IF outcome = "error" THEN "rpc error"
                                 ELSE "Failed to update health assessment")
      /\ UNCHANGED <<today, streakVars, ledgerVars, sessionVars, insightVars,
                     accountVars, health_assessments, retryCount, timers>>

InitHook ==
  /\ today = 0
  /\ result = [op |-> "init"]
  /\ StreakIdle
  /\ LedgerIdle
  /\ SessionsIdle
  /\ chat_messages = << >>
  /\ all_user_insights = << >>
  /\ user_fp_earnings = [u \in Users |-> {}]
  /\ user_daily_fp = [u \in Users |-> {}]
  /\ user_fuel_points = [u \in Users |-> 0]
  /\ health_assessments = {}
  /\ loading = FALSE
  /\ hook_error = {}
  /\ rpc_calls = 0
  /\ retryCount = 0
  /\ timers = << >>

NextHook ==
  \E userId \in UserIds, expectedLifespan \in SpanInputs,
     expectedHealthspan \in SpanInputs, healthScore \in HealthScores,
     outcome \in RpcOutcomes :
    submitAssessment(userId,
                     [expectedLifespan |-> expectedLifespan,
                      expectedHealthspan |-> expectedHealthspan],
                     healthScore, outcome)

SpecHook == InitHook /\ [][NextHook]_vars

----------------------------------------------------------------------------
(* complete_custom_challenge_daily(UUID, UUID, JSONB), the revision of
   red_reef.sql that royal_bush.sql drops and replaces *)

MaxCompletionRows == 3

\* WHERE ... cc.status = 'active'; IF v_challenge.last_completion_date = v_today
jsonb_rejection(v_challenge, v_today) ==
  IF ~v_challenge.exists \/ v_challenge.status # "active"
    THEN "Challenge not found or not active"
  ELSE IF v_challenge.last_completion_date = {v_today}
    THEN "Challenge already completed today"
  ELSE ""

completes_after(v_total_completions, target_completions) ==
  v_total_completions > target_completions

\* IF v_total_completions >= v_challenge.target_completions
completes_at(v_total_completions, target_completions) ==
  v_total_completions >= target_completions

\* from "Create daily completion record" to RETURN: every element of
\* p_completed_actions counts as a completed action
jsonb_completion(v_challenge, acts) ==
  LET v_today == today
      v_actions_completed == Len(acts)
      v_minimum_met == v_actions_completed >= v_challenge.daily_minimum
      v_total_completions ==
        IF v_minimum_met THEN v_challenge.total_completions + 1 ELSE 0
      v_is_completed ==
        v_minimum_met
          /\ completes_at(v_total_completions, v_challenge.target_completions)
      v_fp_earned ==
        IF ~v_minimum_met THEN 0
        ELSE v_challenge.fp_daily_reward
             + (IF v_is_completed THEN v_challenge.fp_completion_reward ELSE 0)
  IN  /\ custom_challenge_daily_completions' =
           Append(custom_challenge_daily_completions,
                  [completion_date |-> v_today,
                   actions_completed |-> v_actions_completed,
                   minimum_met |-> v_minimum_met])
      /\ IF v_minimum_met
           THEN /\ custom_challenges' =
                     [custom_challenges EXCEPT
                        !.total_completions = v_total_completions,
                        !.last_completion_date = {v_today},
                        !.status = IF v_is_completed THEN "completed" ELSE @]
                /\ fp_earnings' =
                     Append(fp_earnings,
                            custom_fp_row(v_fp_earned,
                                          "Custom Challenge Daily Completion"))
           ELSE UNCHANGED <<custom_challenges, fp_earnings>>
      /\ result' = [op |-> "complete_custom_challenge_daily_jsonb", date |-> v_today,
                    success |-> TRUE, minimum_met |-> v_minimum_met,
                    actions_completed |-> v_actions_completed,
                    fp_earned |-> v_fp_earned, is_completed |-> v_is_completed]
      /\ UNCHANGED <<today, challenges, completed_actions, completed_challenges,
                     daily_fp, fuel_points, streakVars>>

jsonb_failure(error) ==
  /\ result' = [op |-> "complete_custom_challenge_daily_jsonb", date |-> today,
                success |-> FALSE, error |-> error]
  /\ UNCHANGED <<today, ledgerVars, streakVars>>

CompleteCustomChallengeDailyJsonb(acts) ==
  /\ Len(custom_challenge_daily_completions) < MaxCompletionRows
  /\ IF jsonb_rejection(custom_challenges, today) # ""
       THEN jsonb_failure(jsonb_rejection(custom_challenges, today))
     ELSE IF malformed(acts)
       THEN jsonb_failure("invalid input syntax for type uuid")
       ELSE jsonb_completion(custom_challenges, acts)
  /\ UNCHANGED <<sessionVars, insightVars, accountVars, assessmentVars>>

InitCustom ==
  /\ today = 0
  /\ result = [op |-> "init"]
  /\ LedgerAfter(0)
  /\ custom_challenges \in ShortCustomChallenges
  /\ custom_challenge_daily_completions = << >>
  /\ StreakIdle
  /\ SessionsIdle
  /\ InsightsIdle

NextCustom ==
  \/ \E acts \in Submissions : CompleteCustomChallengeDaily(acts)
  \/ \E acts \in Submissions : CompleteCustomChallengeDailyJsonb(acts)
  \/ NextDay

\* sequential calls of complete_custom_challenge_daily, in either revision
SpecCustom == InitCustom /\ [][NextCustom]_vars

NextCustomJsonb ==
  \/ \E acts \in Submissions : CompleteCustomChallengeDailyJsonb(acts)
  \/ NextDay

\* sequential calls of the JSONB revision alone
SpecCustomJsonb == InitCustom /\ [][NextCustomJsonb]_vars

----------------------------------------------------------------------------
(* calculate_burn_streak_from_fp_earnings and fix_user_burn_streak_from_fp_earnings
   (jade_oasis.sql); in this part every row of user_fp_earnings has item_type
   'boost' *)

OldestBoostDay == -3

\* the FOR loop over the distinct dates in descending order, from the date
\* `next' on: walk is [v_current_streak, v_last_date, exited], v_last_date {}
\* for NULL
RECURSIVE walk_dates(_, _, _)
walk_dates(dates, next, walk) ==
  IF walk.exited \/ next < OldestBoostDay THEN walk
  ELSE IF next \notin dates THEN walk_dates(dates, next - 1, walk)
  ELSE IF walk.v_last_date = {}
    THEN walk_dates(dates, next - 1,
                    [v_current_streak |-> 1, v_last_date |-> {next}, exited |-> FALSE])
  ELSE IF {next} = {d - 1 : d \in walk.v_last_date}
    THEN walk_dates(dates, next - 1,
                    [v_current_streak |-> walk.v_current_streak + 1,
                     v_last_date |-> {next}, exited |-> FALSE])
  ELSE [walk EXCEPT !.exited = TRUE]

calculate_burn_streak_from_fp_earnings(dates, v_today) ==
  LET v_yesterday == v_today - 1
      walked == walk_dates(dates, v_today,
                           [v_current_streak |-> 0, v_last_date |-> {}, exited |-> FALSE])
  IN  IF walked.v_last_date # {} /\ \A d \in walked.v_last_date : d < v_yesterday
        THEN IF v_today \in dates THEN 1 ELSE 0
        ELSE walked.v_current_streak

\* fix_user_burn_streak_from_fp_earnings(p_user_id)
FixUserBurnStreakFromFpEarnings(p_user_id) ==
  LET v_current_streak == burn_streak[p_user_id]
      v_correct_streak ==
        calculate_burn_streak_from_fp_earnings(user_fp_earnings[p_user_id], today)
  IN  /\ burn_streak' = [burn_streak EXCEPT ![p_user_id] = v_correct_streak]
      /\ result' = [op |-> "fix_user_burn_streak_from_fp_earnings", success |-> TRUE,
                    user_id |-> p_user_id, new_streak |-> v_correct_streak,
                    updated |-> (v_correct_streak # v_current_streak)]
      /\ UNCHANGED <<today, completed_boosts, longest_burn_streak,
                     manual_burn_streak_fixes, n_inserts, ledgerVars, sessionVars,
                     insightVars, accountVars, assessmentVars>>

InitBoostEarnings ==
  /\ today = 0
  /\ result = [op |-> "init"]
  /\ StreakIdle
  /\ LedgerIdle
  /\ SessionsIdle
  /\ chat_messages = << >>
  /\ all_user_insights = << >>
  /\ user_fp_earnings \in [Users -> SUBSET (OldestBoostDay..0)]
  /\ user_daily_fp = [u \in Users |-> {}]
  /\ user_fuel_points = [u \in Users |-> 0]
  /\ AssessmentsIdle

NextBoostEarnings ==
  \/ \E u \in Users : FixUserBurnStreakFromFpEarnings(u)
  \/ NextDay

SpecBoostEarnings == InitBoostEarnings /\ [][NextBoostEarnings]_vars

----------------------------------------------------------------------------
(* update_burn_streak (jade_oasis.sql), the trigger function that increments
   users.burn_streak on a user's first completed boost of a date *)

\* INSERT INTO completed_boosts of a row of user u with completed_date
\* (the client's local date), handled by update_burn_streak
InsertBoostUpdateBurnStreak(u, completed_date) ==
  /\ n_inserts < MaxInserts
  /\ CountRows(completed_boosts[u], completed_date) < MaxBoostsPerDay
  /\ LET v_first_boost_today == CountRows(completed_boosts[u], completed_date) = 0
         v_current_streak == burn_streak[u]
     IN  /\ completed_boosts' =
              [completed_boosts EXCEPT ![u] = InsertRow(@, completed_date)]
         /\ burn_streak' =
              IF v_first_boost_today
                THEN [burn_streak EXCEPT ![u] = v_current_streak + 1]
                ELSE burn_streak
         /\ result' = [op |-> "update_burn_streak", user_id |-> u,
                       completed_date |-> completed_date,
                       first_boost_today |-> v_first_boost_today]
  /\ n_inserts' = n_inserts + 1
  /\ UNCHANGED <<today, longest_burn_streak, manual_burn_streak_fixes, ledgerVars,
                 sessionVars, insightVars, accountVars, assessmentVars>>

NextIncrement ==
  \/ \E u \in Users, d \in ActionDates : InsertBoostUpdateBurnStreak(u, d)
  \/ NextDay

SpecIncrement == InitAwards /\ [][NextIncrement]_vars

----------------------------------------------------------------------------
(* recalculate_burn_streaks and fix_user_burn_streak (broken_limit.sql), both
   over the dates of the user's daily_fp rows with fp_earned > 0; in this part
   every row of user_daily_fp has fp_earned > 0 *)

\* FOR i IN REVERSE array_length(v_dates, 1)..1 LOOP, from the date `next' on;
\* only_recent: the first date counts only if it is today or yesterday
RECURSIVE walk_daily_fp(_, _, _, _, _)
walk_daily_fp(dates, next, walk, only_recent, v_today) ==
  IF walk.exited \/ next < OldestBoostDay THEN walk
  ELSE IF next \notin dates THEN walk_daily_fp(dates, next - 1, walk, only_recent, v_today)
  ELSE IF walk.v_last_date = {}
    THEN IF only_recent /\ next # v_today /\ next # v_today - 1
           THEN [v_current_streak |-> 0, v_last_date |-> {}, exited |-> TRUE]
           ELSE walk_daily_fp(dates, next - 1,
                              [v_current_streak |-> 1, v_last_date |-> {next},
                               exited |-> FALSE],
                              only_recent, v_today)
  ELSE IF \A d \in walk.v_last_date : next + 1 < d
    THEN [walk EXCEPT !.exited = TRUE]
  ELSE walk_daily_fp(dates, next - 1,
                     [v_current_streak |-> walk.v_current_streak + 1,
                      v_last_date |-> {next}, exited |-> FALSE],
                     only_recent, v_today)

NotWalked == [v_current_streak |-> 0, v_last_date |-> {}, exited |-> FALSE]

\* v_current_streak of recalculate_burn_streaks for one user
batch_streak(dates, v_today) ==
  walk_daily_fp(dates, MaxDay, NotWalked, FALSE, v_today).v_current_streak

\* v_current_streak of fix_user_burn_streak
fixed_streak(dates, v_today) ==
  IF dates = {} THEN 0
  ELSE walk_daily_fp(dates, MaxDay, NotWalked, TRUE, v_today).v_current_streak

\* recalculate_burn_streaks(): every user with a daily_fp row with fp_earned > 0
RecalculateBurnStreaks ==
  LET listed == {u \in Users : user_daily_fp[u] # {}}
  IN  /\ burn_streak' =
           [u \in Users |-> IF u \in listed THEN batch_streak(user_daily_fp[u], today)
                            ELSE burn_streak[u]]
      /\ result' = [op |-> "recalculate_burn_streaks", success |-> TRUE,
                    users_updated |->
                      Cardinality({u \in listed :
                                     burn_streak[u] # batch_streak(user_daily_fp[u], today)})]
      /\ UNCHANGED <<today, completed_boosts, longest_burn_streak,
                     manual_burn_streak_fixes, n_inserts, ledgerVars, sessionVars,
                     insightVars, accountVars, assessmentVars>>

\* fix_user_burn_streak(p_user_id)
FixUserBurnStreak(p_user_id) ==
  LET v_old_streak == burn_streak[p_user_id]
      v_current_streak == fixed_streak(user_daily_fp[p_user_id], today)
  IN  /\ burn_streak' = [burn_streak EXCEPT ![p_user_id] = v_current_streak]
      /\ result' = [op |-> "fix_user_burn_streak", success |-> TRUE,
                    user_id |-> p_user_id, old_streak |-> v_old_streak,
                    new_streak |-> v_current_streak]
      /\ UNCHANGED <<today, completed_boosts, longest_burn_streak,
                     manual_burn_streak_fixes, n_inserts, ledgerVars, sessionVars,
                     insightVars, accountVars, assessmentVars>>

InitDailyFp ==
  /\ today = 0
  /\ result = [op |-> "init"]
  /\ StreakIdle
  /\ LedgerIdle
  /\ SessionsIdle
  /\ chat_messages = << >>
  /\ all_user_insights = << >>
  /\ user_fp_earnings = [u \in Users |-> {}]
  /\ user_daily_fp \in [Users -> SUBSET (OldestBoostDay..0)]
  /\ user_fuel_points = [u \in Users |-> 0]
  /\ AssessmentsIdle

NextDailyFp ==
  \/ RecalculateBurnStreaks
  \/ \E u \in Users : FixUserBurnStreak(u)
  \/ NextDay

SpecDailyFp == InitDailyFp /\ [][NextDailyFp]_vars

----------------------------------------------------------------------------
(* fix_all_burn_streaks_from_fp_earnings (jade_oasis.sql); users.burn_streak is
   an integer here, a NULL one being read through COALESCE(burn_streak, 0) *)

StoredStreaks == 0..2

\* the UPDATE touches every selected user
streak_always_differs(stored, v_correct_streak) == TRUE

\* WHERE COALESCE(burn_streak, 0) != v_correct_streak
streak_differs(stored, v_correct_streak) == stored # v_correct_streak

\* SELECT DISTINCT user_id FROM fp_earnings WHERE item_type = 'boost'
users_with_boost_earnings == {u \in Users : user_fp_earnings[u] # {}}

\* the first loop: UPDATE users SET burn_streak = v_correct_streak for the users
\* the WHERE clause matches (FOUND)
found_by_first_loop ==
  {u \in users_with_boost_earnings :
     streak_differs(burn_streak[u],
                    calculate_burn_streak_from_fp_earnings(user_fp_earnings[u], today))}

\* the second loop: users with burn_streak > 0 and no boost earnings
reset_by_second_loop(streaks) ==
  {u \in Users : streaks[u] > 0 /\ user_fp_earnings[u] = {}}

\* fix_all_burn_streaks_from_fp_earnings()
FixAllBurnStreaksFromFpEarnings ==
  LET after_first ==
        [u \in Users |->
           IF u \in found_by_first_loop
             THEN calculate_burn_streak_from_fp_earnings(user_fp_earnings[u], today)
             ELSE burn_streak[u]]
      v_updated_count == Cardinality(found_by_first_loop)
                           + Cardinality(reset_by_second_loop(after_first))
  IN  /\ burn_streak' = [u \in Users |->
                           IF u \in reset_by_second_loop(after_first) THEN 0
                           ELSE after_first[u]]
      /\ result' = [op |-> "fix_all_burn_streaks_from_fp_earnings", success |-> TRUE,
                    users_updated |-> v_updated_count]
      /\ UNCHANGED <<today, completed_boosts, longest_burn_streak,
                     manual_burn_streak_fixes, n_inserts, ledgerVars, sessionVars,
                     insightVars, accountVars, assessmentVars>>

InitFixAll ==
  /\ today = 0
  /\ result = [op |-> "init"]
  /\ completed_boosts = [u \in Users |-> EmptyBag]
  /\ burn_streak \in [Users -> StoredStreaks]
  /\ longest_burn_streak = [u \in Users |-> 0]
  /\ manual_burn_streak_fixes = {}
  /\ n_inserts = 0
  /\ LedgerIdle
  /\ SessionsIdle
  /\ chat_messages = << >>
  /\ all_user_insights = << >>
  /\ user_fp_earnings \in [Users -> SUBSET (OldestBoostDay..0)]
  /\ user_daily_fp = [u \in Users |-> {}]
  /\ user_fuel_points = [u \in Users |-> 0]
  /\ AssessmentsIdle

NextFixAll ==
  \/ FixAllBurnStreaksFromFpEarnings
  \/ \E u \in Users : FixUserBurnStreakFromFpEarnings(u)
  \/ NextDay

SpecFixAll == InitFixAll /\ [][NextFixAll]_vars

----------------------------------------------------------------------------
(* handle_morning_basics_completion with failing statements, and the repair
   fix_morning_basics_challenges (unnamed/part_000) *)

NextRepair ==
  \/ HandleMorningBasicsCompletionWithErrors
  \/ FixMorningBasicsChallenges
  \/ NextDay

SpecRepair == InitLedger /\ [][NextRepair]_vars

----------------------------------------------------------------------------
(* useHealthAssessment.checkEligibility (HealthDashboard.tsx).  A render's
   checkEligibility closes over that render's retryCount; the effect and the
   timers it schedules call the function of the render they were created in *)

MAX_RETRIES == 3

MaxAttempts == 5

MaxTimers == 2

QueryOutcomes == {"rows", "PGRST116", "error"}

\* one call of checkEligibility by `via' (the effect or a timer), the closure
\* holding `captured' for retryCount; count is the retryCount state when the call
\* ends its try block, pending the timers not consumed by this call
checkEligibility(via, userId, captured, count, pending, outcome) ==
  LET seen == captured
      gives_up == seen >= MAX_RETRIES
      thrown == gives_up \/ outcome = "error"
      err == IF gives_up THEN "Failed to connect after multiple attempts"
             ELSE "query error"
  IN  IF userId = {}
        THEN /\ result' = [op |-> "checkEligibility", via |-> via,
                           outcome |-> "no user", returned |-> FALSE]
             /\ retryCount' = count
             /\ timers' = pending
             /\ UNCHANGED <<loading, hook_error>>
        ELSE /\ result' = [op |-> "checkEligibility", via |-> via,
                           outcome |-> IF thrown THEN "thrown" ELSE outcome,
                           returned |-> ~thrown]
             /\ IF thrown
                  THEN /\ count < MaxAttempts
                       /\ retryCount' = count + 1
                       /\ IF seen >= MAX_RETRIES - 1
                            THEN /\ hook_error' = {err}
                                 /\ timers' = pending
                            ELSE /\ hook_error' = {}
                                 /\ Len(pending) < MaxTimers
                                 /\ timers' = Append(pending, captured)
                  ELSE /\ retryCount' = count
                       /\ hook_error' = {}
                       /\ timers' = pending
             /\ loading' = FALSE

\* useEffect(() => { setRetryCount(0); checkEligibility(); }, [userId]): on
\* mount and when userId changes
EligibilityEffect(userId, outcome) ==
  /\ checkEligibility("effect", userId, retryCount, 0, timers, outcome)
  /\ UNCHANGED <<today, streakVars, ledgerVars, sessionVars, insightVars,
                 accountVars, health_assessments, rpc_calls>>

\* a setTimeout callback runs: () => { checkEligibility(); }
RetryTimerFires(i, userId, outcome) ==
  /\ i \in 1..Len(timers)
  /\ checkEligibility("timer", userId, timers[i], retryCount,
                      SubSeq(timers, 1, i - 1) \o SubSeq(timers, i + 1, Len(timers)),
                      outcome)
  /\ UNCHANGED <<today, streakVars, ledgerVars, sessionVars, insightVars,
                 accountVars, health_assessments, rpc_calls>>

NextEligibility ==
  \/ \E userId \in UserIds, outcome \in QueryOutcomes :
       EligibilityEffect(userId, outcome)
  \/ \E i \in 1..MaxTimers, userId \in UserIds, outcome \in QueryOutcomes :
       RetryTimerFires(i, userId, outcome)

SpecEligibility == InitHook /\ [][NextEligibility]_vars

----------------------------------------------------------------------------
(* The two recomputations of all_user_insights.challenge_actions:
   calculate_daily_user_insights (jade_oasis.sql) and
   recalculate_challenge_actions (shrill_lantern.sql) *)

NextRecompute ==
  \/ \E v \in BOOLEAN : InsertChatMessage(v)
  \/ HandleMorningBasicsCompletion
  \/ \E d \in ActionDates : CalculateDailyUserInsights(d)
  \/ RecalculateChallengeActions

SpecRecompute == InitInsights /\ [][NextRecompute]_vars

----------------------------------------------------------------------------
(* Claims about the burn streak, checked under SpecStreak *)

\* the most recent call recalculated user u's streak
Recalculated(u) ==
  \/ result.op = "recalculate_all_burn_streaks"
  \/ /\ result.op \in {"recalculate_burn_streak", "insert_boost"}
     /\ result.user_id = u

\* user u has no boost on CURRENT_DATE or the day before it
NoRecentBoost(u) == BoostDays(u) = {} \/ MostRecentBoost(u) < today - 1

\* C4: when the user's most recent boost date is yesterday, the streak that
\* calculate_burn_streak computes and recalculate_burn_streak stores is the
\* length of the run of consecutive boost days ending yesterday
C4_RunEndingYesterdayCounts ==
  \A u \in Users :
    (Recalculated(u) /\ BoostDays(u) # {} /\ MostRecentBoost(u) = today - 1) =>
      /\ burn_streak[u] = calculate_burn_streak(completed_boosts, u, today)
      /\ burn_streak[u] = RunLenEndingAt(BoostDays(u), today - 1)
      /\ burn_streak[u] >= 1

\* C5: with boosts on each of the k consecutive days ending today and none on
\* day today - k, calculate_burn_streak returns exactly k, for every k >= 1
C5_RunEndingTodayIsExact ==
  \A u \in Users :
    today \in BoostDays(u) =>
      calculate_burn_streak(completed_boosts, u, today)
        = RunLenEndingAt(BoostDays(u), today)

\* C6: when the user's most recent boost date is before yesterday, or the user
\* has no boosts, calculate_burn_streak returns 0 and recalculate_burn_streak
\* stores burn_streak = 0
C6_StaleStreakIsZero ==
  \A u \in Users :
    NoRecentBoost(u) =>
      /\ calculate_burn_streak(completed_boosts, u, today) = 0
      /\ Recalculated(u) => burn_streak[u] = 0

\* C6 witness: recalculate_burn_streak has just replaced a positive stored
\* streak by 0 for a user whose boosts all lie before yesterday
C6_Witness ==
  \E u \in Users :
    /\ result.op = "recalculate_burn_streak" /\ result.user_id = u
    /\ BoostDays(u) # {} /\ MostRecentBoost(u) < today - 1
    /\ \E r \in manual_burn_streak_fixes : r.user_id = u /\ r.previous_streak > 0
    /\ burn_streak[u] = 0

\* C7: every user has longest_burn_streak >= burn_streak
C7_LongestAtLeastCurrent ==
  \A u \in Users : longest_burn_streak[u] >= burn_streak[u]

\* C7 witness: a recalculation has raised a user's streak above the longest
\* streak stored before it
C7_Witness ==
  \E u \in Users :
    /\ Recalculated(u)
    /\ \E r \in manual_burn_streak_fixes :
         /\ r.user_id = u /\ r.reason = "recalculate_burn_streak"
         /\ r.new_streak > r.previous_longest
    /\ burn_streak[u] > 0
    /\ longest_burn_streak[u] = burn_streak[u]

\* C8: after recalculate_burn_streak(user), longest_burn_streak is the length
\* of the longest run of consecutive boost days in the user's whole history
C8_LongestIsMaxRunOfHistory ==
  \A u \in Users :
    Recalculated(u) => longest_burn_streak[u] = LongestRunOf(BoostDays(u))

----------------------------------------------------------------------------
(* Claims about Morning Basics, checked under SpecMB *)

MorningBasicsOps ==
  {"complete_morning_basics_action_v2", "handle_morning_basics_completion"}

\* challenges.verification_count of the user's 'mb0' row, 0 while there is none
VerificationCount(ch) == IF ch.exists THEN ch.verification_count ELSE 0

\* the fp_earnings entries that carry the Morning Basics completion bonus
BonusEntries(fp) ==
  {i \in 1..Len(fp) : /\ fp[i].fp_amount = bonus_fp
                      /\ fp[i].item_id \in {"mb0", "morning_basics_completion"}}

\* C1: fp_earnings holds no completion-bonus entry before verification_count
\* reaches 21, and exactly one from then on, whatever calls follow on later dates
C1_ExactlyOneBonusEntry ==
  Cardinality(BonusEntries(fp_earnings)) =
    IF VerificationCount(challenges) >= days_to_complete THEN 1 ELSE 0

\* C9: a Morning Basics completion for a date that already has a
\* 'morning_basics_daily' completed_actions row returns success = false and
\* leaves the challenge alone; verification_count never rises by more than 1 in
\* a call, rises only in a call that records a date not recorded before, and so
\* never exceeds the number of distinct dates recorded
C9_DuplicateRejectedOncePerDate ==
  [][LET before == VerificationCount(challenges)
         after == VerificationCount(challenges')
     IN  /\ (/\ result'.op \in MorningBasicsOps
             /\ ExistsRow(completed_actions, result'.date))
              => (/\ result'.success = FALSE
                  /\ challenges' = challenges
                  /\ completed_actions' = completed_actions)
         /\ after <= before + 1
         /\ after > before =>
              /\ result'.op \in MorningBasicsOps
              /\ ~ExistsRow(completed_actions, result'.date)
              /\ ExistsRow(completed_actions', result'.date)
         /\ after <= Cardinality(DOMAIN completed_actions')
    ]_vars

\* C9 witness: a second call for a date already recorded has been rejected,
\* after calls on earlier dates raised the count
C9_Witness ==
  /\ result.op \in MorningBasicsOps
  /\ result.success = FALSE
  /\ ExistsRow(completed_actions, result.date)
  /\ CountRows(completed_actions, result.date) = 1
  /\ VerificationCount(challenges) = Cardinality(DOMAIN completed_actions)
  /\ today > 0

\* C10: verification_count lies in 0..21 in every reachable state
C10_VerificationCountWithinThreshold ==
  VerificationCount(challenges) \in 0..days_to_complete

----------------------------------------------------------------------------
(* Claims about the points ledger, checked under SpecLedger *)

RECURSIVE SumAmounts(_)
\* SUM(fp_amount) over the user's fp_earnings entries
SumAmounts(fp) ==
  IF fp = << >> THEN 0 ELSE fp[Len(fp)].fp_amount + SumAmounts(SubSeq(fp, 1, Len(fp) - 1))

\* C3: users.fuel_points equals the sum of fp_amount over the user's
\* fp_earnings entries after any sequence of handle_morning_basics_completion
\* and complete_custom_challenge_daily calls
C3_FuelPointsEqualLedgerSum ==
  fuel_points = SumAmounts(fp_earnings)

----------------------------------------------------------------------------
(* Claims about concurrent calls, checked under SpecConc *)

\* both sessions called for the same challenge, both passed the "already
\* completed today" check (so neither had written when the other checked), and
\* both calls have returned
RacedOn(functions) ==
  \A s \in Sessions :
    /\ fn[s] \in functions
    /\ pc[s] \in {"succeeded", "failed"}
    /\ loc[s] # NoLocals

\* the completed days recorded before CURRENT_DATE
DaysBefore == Cardinality({d \in DOMAIN completed_actions : d < today})

DailyEntries(fp, item_id) == {i \in 1..Len(fp) : fp[i].item_id = item_id}

\* C2: when two completion calls for the same user, challenge and date have
\* both made their existence check before either wrote, then after both
\* returned exactly one of them succeeded, there is one record for the date,
\* the progress counter rose by 1 and one daily fp_earnings entry was added
C2_ConcurrentCallsCompleteOnce ==
  /\ RacedOn(MorningBasicsFunctions) =>
       /\ Cardinality({s \in Sessions : pc[s] = "succeeded"}) = 1
       /\ CountRows(completed_actions, today) = 1
       /\ challenges.verification_count = DaysBefore + 1
       /\ Cardinality(DailyEntries(fp_earnings, "morning_basics_daily"))
            = DaysBefore + 1
  /\ RacedOn({"complete_custom_challenge_daily"}) =>
       /\ Cardinality({s \in Sessions : pc[s] = "succeeded"}) = 1
       /\ Len(custom_challenge_daily_completions) = 1
       /\ custom_challenges.total_completions <= 1
       /\ Cardinality(DailyEntries(fp_earnings, "custom")) <= 1

----------------------------------------------------------------------------
(* Claims about rejected submissions, checked under SpecChallenges *)

CompletionOps == MorningBasicsOps \cup {"complete_custom_challenge_daily"}

\* the status of the challenge that a call of function op completes
StatusFor(op) ==
  IF op \in MorningBasicsOps
    THEN (IF challenges.exists THEN challenges.status ELSE "none")
    ELSE (IF custom_challenges.exists THEN custom_challenges.status ELSE "none")

\* C11: a daily submission for a challenge whose status is 'completed' returns
\* success = false and awards no FP (no fp_earnings entry, no daily_fp change,
\* fuel_points as before), for all three completion functions
C11_CompletedChallengeRejects ==
  [][(result'.op \in CompletionOps /\ StatusFor(result'.op) = "completed") =>
       /\ result'.success = FALSE
       /\ UNCHANGED <<fp_earnings, daily_fp, fuel_points>>
    ]_vars

\* C12: a call of one of the three completion functions that returns
\* success = false leaves the challenge rows, the completed-action and
\* daily-completion rows, fp_earnings, daily_fp and fuel_points as they were
C12_FailureLeavesNoPartialState ==
  [][(result'.op \in CompletionOps /\ result'.success = FALSE) =>
       UNCHANGED ledgerVars
    ]_vars

\* C12 witness: after a Morning Basics completion today,
\* complete_custom_challenge_daily has returned the error raised by a malformed
\* action_id while the challenge was active and not yet completed today, so
\* that its daily completion row had been inserted before the error and undone
C12_Witness ==
  /\ result.op = "complete_custom_challenge_daily"
  /\ result.success = FALSE
  /\ result.error = "invalid input syntax for type uuid"
  /\ custom_challenges.status = "active"
  /\ ~custom_completed_on(custom_challenge_daily_completions, today)
  /\ ExistsRow(completed_actions, today)

----------------------------------------------------------------------------
(* Claims about the stored streak as a cache *)

\* C13: within one calendar day, starting with every burn_streak equal to
\* calculate_burn_streak, boost insertions (with their trigger) and runs of
\* reset_missed_burn_streaks keep every user's burn_streak equal to the value
\* calculate_burn_streak computes from completed_boosts
C13_StoredStreakIsRecomputable ==
  \A u \in Users :
    burn_streak[u] = calculate_burn_streak(completed_boosts, u, today)

\* C14: recalculate_burn_streak(u) stores calculate_burn_streak(u) whatever
\* burn_streak held before, and a second call right after the first (no boost
\* inserted, same date) leaves burn_streak and longest_burn_streak as the
\* first call left them
C14_RecalculateReplacesAndIsIdempotent ==
  [][\A u \in Users :
       (result'.op = "recalculate_burn_streak" /\ result'.user_id = u) =>
         /\ burn_streak'[u] = calculate_burn_streak(completed_boosts, u, today)
         /\ (result.op = "recalculate_burn_streak" /\ result.user_id = u) =>
              /\ burn_streak' = burn_streak
              /\ longest_burn_streak' = longest_burn_streak
    ]_vars

\* C14 witness: recalculate_burn_streak has replaced a stored streak that
\* differed from the one it calculated
C14_Witness ==
  /\ result.op = "recalculate_burn_streak"
  /\ \E r \in manual_burn_streak_fixes :
       /\ r.user_id = result.user_id
       /\ r.previous_streak # r.new_streak
       /\ burn_streak[r.user_id] = r.new_streak

----------------------------------------------------------------------------
(* Claims about all_user_insights *)

C17_CounterMatchesRecalculation ==
  [][/\ \A i \in 1..Len(all_user_insights') :
          all_user_insights'[i].challenge_actions =
            verification_posts(chat_messages', all_user_insights'[i].date)
     /\ (result'.op = "insert_chat_message" /\ ~result'.is_verification) =>
          all_user_insights' = all_user_insights
    ]_vars

\* C17 witness: the trigger has counted two verification messages of today,
\* with a message that is not a verification among today's messages
C17_Witness ==
  /\ result.op = "insert_chat_message"
  /\ \E i \in InsightIds(all_user_insights, today) :
       all_user_insights[i].challenge_actions = 2
  /\ \E j \in 1..Len(chat_messages) :
       chat_messages[j].created_on = today /\ ~chat_messages[j].is_verification

\* C16: under any interleaving of calculate_daily_user_insights calls and
\* update_challenge_action_count firings, all_user_insights holds at most one
\* row per date
C16_OneInsightsRowPerDate ==
  \A i, j \in 1..Len(all_user_insights) :
    all_user_insights[i].date = all_user_insights[j].date => i = j

\* C18: an award to user a (a completed_boosts row, or fp_earnings and daily_fp
\* rows, with the triggers of those tables) changes no other user's burn_streak,
\* longest_burn_streak, fuel_points or award rows
C18_AwardTouchesOnlyItsUser ==
  [][\A a \in Users :
       (result'.op \in {"insert_boost", "award_daily_fp"} /\ result'.user_id = a) =>
         \A b \in Users \ {a} :
           /\ burn_streak'[b] = burn_streak[b]
           /\ longest_burn_streak'[b] = longest_burn_streak[b]
           /\ user_fuel_points'[b] = user_fuel_points[b]
           /\ user_fp_earnings'[b] = user_fp_earnings[b]
           /\ user_daily_fp'[b] = user_daily_fp[b]]_vars

\* C19: recalculate_all_burn_streaks processes every user even when
\* recalculate_burn_streak fails for some: every user has a result, the users
\* whose call succeeded have their recomputed streak stored, success_count +
\* error_count = total_users = the number of users, and error_count is the
\* number of failed calls
C19_EveryUserProcessedAndCounted ==
  [][result'.op = "recalculate_all_burn_streaks" =>
       /\ result'.success
       /\ DOMAIN result'.results = Users
       /\ \A u \in Users :
            result'.results[u] =>
              burn_streak'[u] = calculate_burn_streak(completed_boosts, u, today)
       /\ result'.success_count + result'.error_count = result'.total_users
       /\ result'.total_users = Cardinality(Users)
       /\ result'.error_count = Cardinality({u \in Users : ~result'.results[u]})]_vars

\* a run in which one user's call failed and another user's stale streak was
\* recomputed
C19_Witness ==
  /\ result.op = "recalculate_all_burn_streaks"
  /\ result.error_count = 1
  /\ \E u \in Users :
       /\ result.results[u]
       /\ burn_streak[u] = 0
       /\ BoostDays(u) # {}

\* C20: no fp_earnings entry with fp_amount <= 0 is ever created
C20_EveryEntryIsPositive ==
  \A i \in 1..Len(fp_earnings) : fp_earnings[i].fp_amount > 0

\* C21: in the category averages for date d every user contributes exactly one
\* health_assessments record, one with the greatest created_at among the user's
\* records dated <= d; a user without such a record contributes nothing, and no
\* record dated after d contributes
C21_LatestAssessmentPerUser ==
  [][result'.op = "category_averages" =>
       LET d == result'.date
           used == result'.latest_assessments
       IN  /\ used \subseteq health_assessments
           /\ \A r \in used : DATE(r.created_at) <= d
           /\ \A u \in Users :
                LET mine == {r \in health_assessments :
                               r.user_id = u /\ DATE(r.created_at) <= d}
                    contributed == {r \in used : r.user_id = u}
                IN  /\ mine = {} => contributed = {}
                    /\ mine # {} =>
                         /\ Cardinality(contributed) = 1
                         /\ \A r \in contributed :
                              /\ r \in mine
                              /\ \A q \in mine : q.created_at <= r.created_at
           /\ result'.mindset.count = Cardinality(used)
           /\ result'.mindset.sum = sum_mindset_score(used)]_vars

\* averages taken when a user has an older and a newer record up to the date
\* and a record after it, and the other user has none up to the date
C21_Witness ==
  /\ result.op = "category_averages"
  /\ \E r \in result.latest_assessments :
       /\ \E q \in health_assessments :
            /\ q.user_id = r.user_id
            /\ q.created_at < r.created_at
            /\ q.mindset_score # r.mindset_score
       /\ \E q \in health_assessments :
            q.user_id = r.user_id /\ DATE(q.created_at) > result.date
  /\ Cardinality(result.latest_assessments) = 1

\* C22: calculate_burn_streak terminates, after at most v_max_days_to_check
\* iterations, and returns a non-negative integer for every history of
\* completed_boosts, a run longer than the limit included; without boosts it
\* returns 0
C22_CalculateTerminatesNonNegative ==
  /\ \A s \in Sessions : (pc[s] = "loop") ~> (pc[s] = "idle")
  /\ [](\A s \in Sessions :
          pc[s] = "loop" => loc[s].v_days_checked < v_max_days_to_check)
  /\ [][result'.op = "calculate_burn_streak" =>
          /\ result'.v_streak \in Nat
          /\ result'.v_days_checked <= v_max_days_to_check
          /\ completed_boosts[result'.user_id] = EmptyBag => result'.v_streak = 0]_vars

\* the call returned for a user whose run of boost days is longer than the limit
C22_Witness ==
  /\ result.op = "calculate_burn_streak"
  /\ result.v_streak = v_max_days_to_check
  /\ (today - v_max_days_to_check) \in DOMAIN completed_boosts[result.user_id]

\* C23: for a user without a challenge record the first successful daily
\* completion creates the record with status 'active' and verification_count 1;
\* every later successful call adds exactly 1 to verification_count
C23_FirstCallCreatesThenCountsByOne ==
  [][(result'.op \in MorningBasicsOps /\ result'.success) =>
       /\ challenges'.exists
       /\ IF challenges.exists
            THEN challenges'.verification_count = challenges.verification_count + 1
            ELSE /\ challenges'.status = "active"
                 /\ challenges'.verification_count = 1]_vars

\* a record created by the first call and counted up by a call of the other
\* function on the next date
C23_Witness ==
  /\ result.op = "handle_morning_basics_completion"
  /\ result.success
  /\ challenges.exists
  /\ challenges.status = "active"
  /\ challenges.verification_count = 2
  /\ Len(fp_earnings) = 2

InRange(lo, a, hi) == ~a.nan /\ ~lo.nan /\ ~hi.nan /\ lo.v <= a.v /\ a.v <= hi.v

\* C24: submitAssessment calls the RPC only when 50 <= expectedLifespan <= 200,
\* 50 <= expectedHealthspan <= expectedLifespan and 1 <= health score <= 10; for
\* any other input it throws, sets the error, makes no RPC call and ends with
\* loading = false
C24_RpcOnlyForValidInput ==
  [][result'.op = "submitAssessment" =>
       LET data == result'.data
           valid ==
             /\ InRange(number(50), data.expectedLifespan, number(200))
             /\ InRange(number(50), data.expectedHealthspan, data.expectedLifespan)
             /\ InRange(number(1), result'.healthScore, number(10))
       IN  /\ rpc_calls' # rpc_calls => valid
           /\ ~valid => /\ result'.thrown
                        /\ hook_error' # {}
                        /\ rpc_calls' = rpc_calls
                        /\ loading' = FALSE]_vars

CustomOps ==
  {"complete_custom_challenge_daily", "complete_custom_challenge_daily_jsonb"}

\* the fp_earnings entries a step appended
Appended == SubSeq(fp_earnings', Len(fp_earnings) + 1, Len(fp_earnings'))

BonusTitled(entries) ==
  {i \in 1..Len(entries) : entries[i].title = "Custom Challenge Completion Bonus"}

C26_OneDailyCompletionPerDate ==
  /\ [](\A i, j \in 1..Len(custom_challenge_daily_completions) :
          custom_challenge_daily_completions[i].completion_date
            = custom_challenge_daily_completions[j].completion_date => i = j)
  /\ [][(custom_challenges'.total_completions # custom_challenges.total_completions
           \/ Len(fp_earnings') > Len(fp_earnings)) =>
          /\ custom_challenges'.total_completions
               = custom_challenges.total_completions + 1
          /\ custom_challenges.last_completion_date # {today}]_vars

\* C27: after every successful call of complete_morning_basics_action_v2 the
\* fp_earned of the daily_fp row of the action date has grown by exactly the sum
\* of the fp_amount of the fp_earnings entries the call appended, whether or not
\* the row existed before the call
C27_DailyFpGrowsByAppendedAmounts ==
  [][(result'.op = "complete_morning_basics_action_v2" /\ result'.success) =>
       LET d == result'.date
           before == IF d \in DOMAIN daily_fp THEN daily_fp[d].fp_earned ELSE 0
       IN  /\ d \in DOMAIN daily_fp'
           /\ daily_fp'[d].fp_earned - before =
                SumAmounts(SubSeq(fp_earnings', Len(fp_earnings) + 1,
                                  Len(fp_earnings')))]_vars

\* C28: calculate_burn_streak_from_fp_earnings resets the walked streak (to 0,
\* or to 1 with a boost today) only if the most recent boost-earning date is
\* before yesterday; when that date is today or yesterday the result is the
\* length of the run of consecutive boost dates ending at it
C28_RecentRunCountsInFull ==
  [][result'.op = "fix_user_burn_streak_from_fp_earnings" =>
       LET dates == user_fp_earnings[result'.user_id]
       IN  dates # {} =>
             IF SetMax(dates) >= today - 1
               THEN result'.new_streak = RunLenEndingAt(dates, SetMax(dates))
               ELSE result'.new_streak = 0]_vars

\* C29: after update_burn_streak has handled a user's first completed boost of
\* date D, users.burn_streak is the length of the run of consecutive boost dates
\* ending at D, also when the previous boost date is more than one day before D;
\* a second boost on the same date leaves burn_streak unchanged
C29_IncrementEqualsRecount ==
  [][result'.op = "update_burn_streak" =>
       LET u == result'.user_id
       IN  IF result'.first_boost_today
             THEN burn_streak'[u] =
                    RunLenEndingAt(DOMAIN completed_boosts'[u], result'.completed_date)
             ELSE burn_streak'[u] = burn_streak[u]]_vars

\* C30: for every user with a daily_fp row with fp_earned > 0, the batch
\* recalculate_burn_streaks() stores the burn_streak that fix_user_burn_streak
\* stores from the same daily_fp history on the same current date: a batch run
\* right after the user's fix, or a fix right after a batch run, changes nothing
C30_BatchAgreesWithPerUserFix ==
  [][\A u \in Users :
       user_daily_fp[u] # {} =>
         /\ (result.op = "fix_user_burn_streak" /\ result.user_id = u
               /\ result'.op = "recalculate_burn_streaks")
              => burn_streak'[u] = burn_streak[u]
         /\ (result.op = "recalculate_burn_streaks"
               /\ result'.op = "fix_user_burn_streak" /\ result'.user_id = u)
              => burn_streak'[u] = burn_streak[u]]_vars


\* C31: fix_all_burn_streaks_from_fp_earnings reports users_updated equal to
\* the number of users whose stored burn_streak it changed, and a run that
\* directly follows another run (same date, nothing written in between) changes
\* no burn_streak and reports users_updated = 0
C31_UsersUpdatedCountsChanges ==
  [][result'.op = "fix_all_burn_streaks_from_fp_earnings" =>
       /\ result'.users_updated =
            Cardinality({u \in Users : burn_streak'[u] # burn_streak[u]})
       /\ result.op = "fix_all_burn_streaks_from_fp_earnings" =>
            /\ burn_streak' = burn_streak
            /\ result'.users_updated = 0]_vars

\* a first run has changed the streaks of both users, one of them by the
\* second loop
C31_Witness ==
  /\ result.op = "fix_all_burn_streaks_from_fp_earnings"
  /\ result.users_updated = 2
  /\ \E u \in Users : user_fp_earnings[u] = {}
  /\ \E u \in Users : burn_streak[u] > 0


\* C32: after fix_morning_basics_challenges every 'mb0' challenges row with
\* status 'completed' and verification_count >= 21 has a completed_challenges
\* row; a run that directly follows another returns fixed_count = 0 and appends
\* nothing; and over handle_morning_basics_completion calls followed by the
\* repair the user holds at most one 50-FP 'mb0' entry in fp_earnings
C32_RepairCompletesOnceWithOneBonus ==
  /\ [][result'.op = "fix_morning_basics_challenges" =>
          /\ (/\ challenges'.exists
               /\ challenges'.status = "completed"
               /\ challenges'.verification_count >= 21) =>
                Len(completed_challenges') > 0
          /\ result.op = "fix_morning_basics_challenges" =>
                /\ result'.fixed_count = 0
                /\ fp_earnings' = fp_earnings
                /\ completed_challenges' = completed_challenges]_vars
  /\ [](Cardinality({i \in 1..Len(fp_earnings) :
                        /\ fp_earnings[i].item_id = "mb0"
                        /\ fp_earnings[i].fp_amount = 50}) <= 1)

\* C34: whenever handle_morning_basics_completion returns success = true, the
\* call has recorded the completed_actions row, appended the 5-FP
\* 'morning_basics_daily' entry, and added the FP it reports to the day's
\* daily_fp row and to users.fuel_points
C34_SuccessMeansEveryStepApplied ==
  [][(result'.op = "handle_morning_basics_completion" /\ result'.success) =>
       LET d == result'.date
           before == IF d \in DOMAIN daily_fp THEN daily_fp[d].fp_earned ELSE 0
       IN  /\ CountRows(completed_actions', d) = CountRows(completed_actions, d) + 1
           /\ Cardinality(DailyEntries(fp_earnings', "morning_basics_daily")) =
                Cardinality(DailyEntries(fp_earnings, "morning_basics_daily")) + 1
           /\ d \in DOMAIN daily_fp'
           /\ daily_fp'[d].fp_earned = before + result'.fp_earned
           /\ fuel_points' = fuel_points + result'.fp_earned]_vars


\* C33: when the health_assessments query keeps failing, checkEligibility stops
\* retrying after MAX_RETRIES failed attempts: a failed call that brings
\* retryCount to MAX_RETRIES or more schedules no further retry timer and
\* sets the hook's error state
C33_RetriesEndAfterMaxRetries ==
  [][(/\ result'.op = "checkEligibility"
      /\ result'.outcome = "thrown"
      /\ retryCount' >= MAX_RETRIES) =>
       /\ Len(timers') = Len(timers) - (IF result'.via = "timer" THEN 1 ELSE 0)
       /\ hook_error' # {}]_vars


\* the custom_challenge_daily_completions rows of date d
CompletionRowsOn(rows, d) == {i \in 1..Len(rows) : rows[i].completion_date = d}

\* C35: a call of complete_custom_challenge_daily (TEXT revision) whose count of
\* valid actions is below daily_minimum returns success = true with
\* minimum_met = false, appends no fp_earnings entry and leaves
\* total_completions, daily_fp and fuel_points unchanged, yet records a daily
\* completion row; every later call for the challenge on that date is rejected
\* with 'Challenge already completed today' and changes nothing
C35_BelowMinimumBlocksTheDay ==
  [][result'.op = "complete_custom_challenge_daily" =>
       LET rows == custom_challenge_daily_completions
           below == \E i \in CompletionRowsOn(rows, today) : ~rows[i].minimum_met
       IN  /\ (result'.success /\ result'.actions_completed
                                     < custom_challenges.daily_minimum) =>
                /\ ~result'.minimum_met
                /\ fp_earnings' = fp_earnings
                /\ custom_challenges' = custom_challenges
                /\ daily_fp' = daily_fp
                /\ fuel_points' = fuel_points
                /\ Cardinality(CompletionRowsOn(custom_challenge_daily_completions',
                                                today)) = 1
           /\ below =>
                /\ ~result'.success
                /\ result'.error = "Challenge already completed today"
                /\ UNCHANGED ledgerVars]_vars

\* a call was rejected on a date whose only row did not meet the minimum
C35_Witness ==
  /\ result.op = "complete_custom_challenge_daily"
  /\ ~result.success
  /\ result.error = "Challenge already completed today"
  /\ custom_challenges.status = "active"
  /\ custom_challenges.total_completions = 0
  /\ \E i \in CompletionRowsOn(custom_challenge_daily_completions, today) :
       ~custom_challenge_daily_completions[i].minimum_met


\* the number of distinct actions of the challenge among those submitted
DistinctOwnActions(acts) ==
  Cardinality({acts[i] : i \in 1..Len(acts)} \cap ChallengeActions)

\* C36: complete_custom_challenge_daily (either revision) sets minimum_met =
\* true, awards FP and increments total_completions only if the submission
\* contains at least daily_minimum distinct actions that belong to the
\* challenge; actions of other challenges and repeated action_ids do not count
C36_MinimumCountsDistinctOwnActions ==
  [][\A acts \in Submissions :
       (/\ CompleteCustomChallengeDaily(acts)
              \/ CompleteCustomChallengeDailyJsonb(acts)
        /\ result'.success
        /\ \/ result'.minimum_met
           \/ fp_earnings' # fp_earnings
           \/ custom_challenges'.total_completions
                # custom_challenges.total_completions) =>
         DistinctOwnActions(acts) >= custom_challenges.daily_minimum]_vars


\* C37: calculate_burn_streak never returns more than 100
\* (v_max_days_to_check): for a user with boosts on more than 100 consecutive
\* days ending today it returns exactly 100, and every burn_streak that
\* recalculate_burn_streak writes is in 0..100
C37_StreakCappedAtSafetyLimit ==
  [][\A r \in manual_burn_streak_fixes' :
       (/\ result'.op \in {"recalculate_burn_streak", "insert_boost",
                           "recalculate_all_burn_streaks"}
        /\ r.reason = "recalculate_burn_streak") =>
         /\ r.new_streak \in 0..100
         /\ burn_streak'[r.user_id] = r.new_streak
         /\ r.new_streak = calculate_burn_streak(completed_boosts', r.user_id, today')
         /\ RunLenEndingAt(DOMAIN completed_boosts'[r.user_id], today') > 100 =>
              r.new_streak = 100]_vars

\* a recalculation for a user with boosts on 101 consecutive days ending today
C37_Witness ==
  /\ result.op = "recalculate_burn_streak"
  /\ result.new_streak = 100
  /\ burn_streak[result.user_id] = 100
  /\ RunLenEndingAt(BoostDays(result.user_id), today) > 100


\* C38: longest_burn_streak never decreases: over boost insertions,
\* recalculate_burn_streak, recalculate_all_burn_streaks and
\* reset_missed_burn_streaks calls every user's longest_burn_streak is at
\* least what it was in the state before, and reset_missed_burn_streaks
\* leaves it unchanged
C38_LongestNeverDecreases ==
  [][/\ \A u \in Users : longest_burn_streak'[u] >= longest_burn_streak[u]
     /\ result'.op = "reset_missed_burn_streaks" =>
          longest_burn_streak' = longest_burn_streak]_vars

\* a recalculation has stored a streak below the longest one, which it kept
C38_Witness ==
  /\ result.op = "recalculate_burn_streak"
  /\ result.new_streak < longest_burn_streak[result.user_id]
  /\ burn_streak[result.user_id] = result.new_streak
  /\ longest_burn_streak[result.user_id] > 0


\* C39: the two from-scratch recomputations of challenge_actions agree: for
\* every date with an all_user_insights row, the value
\* calculate_daily_user_insights(d) writes is the one
\* recalculate_challenge_actions() writes for d from the same table contents
C39_RecomputePathsAgree ==
  [][/\ result'.op = "calculate_daily_user_insights" =>
          \A i \in InsightIds(all_user_insights', result'.date) :
            all_user_insights'[i].challenge_actions =
              verification_posts(chat_messages, result'.date)
     /\ result'.op = "recalculate_challenge_actions" =>
          \A i \in 1..Len(all_user_insights') :
            all_user_insights'[i].challenge_actions =
              daily_user_insights(all_user_insights'[i].date).challenge_actions]_vars

====
